---- MODULE Spec2Model ----
(***************************************************************************)
(* A model of docker-backup: the label parser, the cron Scheduler, the     *)
(* backup Manager (the coordinator), the retention enforcer, the local     *)
(* storage sink and the volume backup type.                                *)
(*                                                                         *)
(* One module holds several specifications over the same variables:        *)
(*   SpecSched  - the Scheduler's own operations (AddJob, RemoveJob, List) *)
(*   SpecCoord  - the Manager reconciling the runtime with the Scheduler   *)
(*   SpecBackup - backup runs (cron firings, explicit triggers), the sinks *)
(*                and retention                                            *)
(*   SpecVolume - one volume backup or restore at a time, step by step     *)
(*   SpecKey    - generateBackupKey on pairs of instants                   *)
(*   SpecDaemon - the daemon shell: job executions in flight and the       *)
(*                shutdown sequence                                        *)
(*   SpecRetention - retention.Manager.Enforce on sinks of any content     *)
(*   SpecWatch  - the watcher goroutines and the runtime's event stream;   *)
(*                SpecWatchFair adds the fairness of the watcher           *)
(*   SpecRpc    - the restore, delete and list requests of the API server  *)
(*   SpecNotify - the notification tasks of an emitting operation          *)
(*   SpecLocal  - Store, Delete and List of the local sink on its          *)
(*                directory tree, and of the s3 sink                       *)
(*   SpecParse  - ParseLabels on label maps of any content                 *)
(*   SpecRace   - the event-stream and the polling goroutine inside        *)
(*                handleEvent at the same time                             *)
(* A specification leaves the variables of the other parts unchanged.      *)
(***************************************************************************)
EXTENDS Integers, Sequences, FiniteSets, TLC

VARIABLES
    rt,          \* the container runtime: id -> [state, labels]
    evq,         \* runtime events not yet handed to Manager.handleEvent
    containers,  \* Manager.containers: containerID -> ContainerConfig
    scheduler,   \* Scheduler: [jobs, entries, next] (jobs map + cron entries)
    store,       \* the sinks: pool name -> (key -> [mtime, data])
    clock,       \* the wall clock, in seconds after ClockBase
    fs,          \* the host filesystem: path -> [type, data]
    vop,         \* the volume backup / restore in progress
    dmn,         \* the daemon shell: shutdown position, servers, executions, watcher
    ntf,         \* the notification tasks: the emitting operation, the tasks, their sends
    hnd,         \* the two goroutines of the watcher inside handleEvent: their positions
    last         \* what the last step did (history, read by the properties only)

volVars == <<fs, vop>>

vars == <<rt, evq, containers, scheduler, store, clock, fs, vop, dmn, ntf, hnd, last>>

(***************************************************************************)
(* Bounds                                                                  *)
(***************************************************************************)
MaxQueue == 1
MaxEntryID == 4
MaxClock == 1

\* the executions of runBackup in flight at once
MaxExecs == 2

(***************************************************************************)
(* Small helpers                                                           *)
(***************************************************************************)
Range(s) == {s[i] : i \in DOMAIN s}

Without(f, k) == [x \in (DOMAIN f) \ {k} |-> f[x]]

SeqOfSet(order, S) == SelectSeq(order, LAMBDA x : x \in S)

(***************************************************************************)
(* internal/config/labels.go                                               *)
(***************************************************************************)
LabelPrefix == "docker-backup"

reservedProperties == {"enable", "type", "schedule", "retention", "storage", "notify"}

\* strconv.ParseBool: the literals it accepts
ParseBoolTrue == {"1", "t", "T", "TRUE", "true", "True"}
ParseBoolFalse == {"0", "f", "F", "FALSE", "false", "False"}

\* strconv.Atoi on the numerals the model uses; anything else is an error
AtoiTable == ("0" :> 0) @@ ("1" :> 1) @@ ("2" :> 2) @@ ("3" :> 3) @@ ("7" :> 7) @@ ("-1" :> (0 - 1))

\* strings.TrimSpace on the values the model uses
TrimSpace(v) ==
    CASE v \in {" ", "  "} -> ""
      [] v = " volume " -> "volume"
      [] v = " 0 3 * * * " -> "0 3 * * *"
      [] OTHER -> v

\* parseNotifyValue: trim, split on commas, trim each part, drop empties
parseNotifyValue(val) ==
    CASE TrimSpace(val) = "" -> <<>>
      [] val = "slack" -> <<"slack">>
      [] val = "mail" -> <<"mail">>
      [] val = "slack, mail" -> <<"slack", "mail">>
      [] val = "slack,,mail" -> <<"slack", "mail">>
      [] OTHER -> <<val>>

\* the lexicographic order of the config names the model uses (sort.Slice by Name)
ConfigNameOrder == <<"a", "db", "enable", "files", "notify">>

\* a label key is the sequence of its dot-separated parts: <<prefix, name>> or
\* <<prefix, name, property>>; a key of another tool has another first part
HasLabelPrefix(key) == Len(key) >= 2 /\ key[1] = LabelPrefix

Label(labels, key) == IF key \in DOMAIN labels THEN labels[key] ELSE ""

parseConfigGroup(name, props) ==
    LET typ == IF "type" \in DOMAIN props THEN TrimSpace(props["type"]) ELSE ""
        sch == IF "schedule" \in DOMAIN props THEN TrimSpace(props["schedule"]) ELSE ""
        hasRet == "retention" \in DOMAIN props
        retOk == hasRet => props["retention"] \in DOMAIN AtoiTable
        ret == IF hasRet /\ retOk THEN AtoiTable[props["retention"]] ELSE 7
        backup == [Name |-> name, BackupType |-> typ, Schedule |-> sch, Retention |-> ret,
                   Storage |-> IF "storage" \in DOMAIN props THEN TrimSpace(props["storage"]) ELSE "",
                   Notify |-> IF "notify" \in DOMAIN props THEN parseNotifyValue(props["notify"]) ELSE <<>>]
    IN  [err |-> typ = "" \/ sch = "" \/ ~retOk \/ ret < 1, backup |-> backup]

\* a variant of parseNamedConfigs that takes a reserved property for a
\* config name like any other
parseNamedConfigsAll(labels) ==
    LET keys == {k \in DOMAIN labels : HasLabelPrefix(k) /\ Len(k) = 3}
        names == {k[2] : k \in keys}
        props(n) == [p \in {k[3] : k \in {x \in keys : x[2] = n}} |-> labels[<<LabelPrefix, n, p>>]]
        sorted == SeqOfSet(ConfigNameOrder, names)
    IN  [err |-> \E n \in names : parseConfigGroup(n, props(n)).err,
         backups |-> [i \in DOMAIN sorted |-> parseConfigGroup(sorted[i], props(sorted[i])).backup]]

parseNamedConfigs(labels) ==
    LET keys == {k \in DOMAIN labels : HasLabelPrefix(k) /\ Len(k) = 3 /\ k[2] \notin reservedProperties}
        names == {k[2] : k \in keys}
        props(n) == [p \in {k[3] : k \in {x \in keys : x[2] = n}} |-> labels[<<LabelPrefix, n, p>>]]
        sorted == SeqOfSet(ConfigNameOrder, names)
    IN  [err |-> \E n \in names : parseConfigGroup(n, props(n)).err,
         backups |-> [i \in DOMAIN sorted |-> parseConfigGroup(sorted[i], props(sorted[i])).backup]]

\* ParseLabels: [err, cfg]; cfg is meaningful only when err is FALSE
ParseLabels(containerID, containerName, labels) ==
    LET enableKey == <<LabelPrefix, "enable">>
        has == enableKey \in DOMAIN labels
        badBool == has /\ labels[enableKey] \notin (ParseBoolTrue \cup ParseBoolFalse)
        enabled == has /\ labels[enableKey] \in ParseBoolTrue
        base == [ContainerID |-> containerID, ContainerName |-> containerName,
                 Enabled |-> FALSE, Notify |-> <<>>, Backups |-> <<>>]
        named == parseNamedConfigs(labels)
    IN  IF badBool THEN [err |-> TRUE, cfg |-> base]
        ELSE IF ~enabled THEN [err |-> FALSE, cfg |-> base]
        ELSE IF named.err \/ Len(named.backups) = 0 THEN [err |-> TRUE, cfg |-> base]
        ELSE [err |-> FALSE,
              cfg |-> [base EXCEPT !.Enabled = TRUE,
                                   !.Notify = parseNotifyValue(Label(labels, <<LabelPrefix, "notify">>)),
                                   !.Backups = named.backups]]

(***************************************************************************)
(* internal/scheduler: Scheduler over robfig/cron                          *)
(***************************************************************************)
\* the five-field parser of New(): the expressions of the model it accepts.
\* Six fields and @-descriptors are rejected (no Seconds, no Descriptor option).
ValidSchedules == {"0 3 * * *", "0 4 * * *", "*/5 * * * *", "* * * * *"}

ValidSchedule(schedule) == schedule \in ValidSchedules

NewScheduler == [jobs |-> <<>>, entries |-> <<>>, next |-> 0]

\* cron.Remove(entryID)
cronRemove(s, id) == [s EXCEPT !.entries = Without(s.entries, id)]

\* cron.AddFunc(schedule, job) of a valid schedule: c.next++, entry.ID = c.next
cronAddFunc(s, schedule, job) ==
    [s EXCEPT !.next = s.next + 1,
              !.entries = s.entries @@ ((s.next + 1) :> [schedule |-> schedule, job |-> job])]

\* Scheduler.AddJob: [s, err]
AddJob(s, key, schedule, job) ==
    LET s1 == IF key \in DOMAIN s.jobs
              THEN [cronRemove(s, s.jobs[key]) EXCEPT !.jobs = Without(s.jobs, key)]
              ELSE s
    IN  IF ~ValidSchedule(schedule)
        THEN [s |-> s1, err |-> TRUE]
        ELSE [s |-> [cronAddFunc(s1, schedule, job) EXCEPT !.jobs = s1.jobs @@ (key :> (s1.next + 1))],
              err |-> FALSE]

\* Scheduler.RemoveJob
RemoveJob(s, key) ==
    IF key \in DOMAIN s.jobs
    THEN [cronRemove(s, s.jobs[key]) EXCEPT !.jobs = Without(s.jobs, key)]
    ELSE s

\* Scheduler.UpdateJob
UpdateJob(s, key, schedule, job) == AddJob(s, key, schedule, job)

HasJob(s, key) == key \in DOMAIN s.jobs

JobCount(s) == Cardinality(DOMAIN s.jobs)

\* Scheduler.ListJobs: the job keys with the schedule that decides NextRun
ListJobs(s) == [k \in DOMAIN s.jobs |-> s.entries[s.jobs[k]].schedule]

(***************************************************************************)
(* The environment of the Manager: registries, pools, the runtime          *)
(***************************************************************************)
\* backup.Register: the backup types the imports register
RegisteredTypes == {"volume", "postgres", "mysql"}

\* the pools of the PoolManager and its default pool
Pools == {"local", "s3"}
DefaultPool == "local"

\* PoolManager.Get / GetDefault / GetForContainer: does the name resolve
PoolGet(name) == name \in Pools

PoolGetDefault == DefaultPool /= "" /\ PoolGet(DefaultPool)

GetForContainer(storageName) ==
    IF storageName /= "" THEN PoolGet(storageName) ELSE PoolGetDefault

ContainerIDs == {"c1", "c2"}

\* the name docker inspect reports for a container (leading "/" trimmed)
NameOf(id) == IF id = "c1" THEN "web" ELSE "db1"

Enable(v) == (<<LabelPrefix, "enable">> :> v)

Lbl(name, prop, v) == (<<LabelPrefix, name, prop>> :> v)

LabelsOff == Enable("false") @@ Lbl("db", "type", "volume") @@ Lbl("db", "schedule", "0 3 * * *")

LabelsBadBool == Enable("yes") @@ Lbl("db", "type", "volume") @@ Lbl("db", "schedule", "0 3 * * *")

LabelsDb3 ==
    Enable("true") @@ Lbl("db", "type", " volume ") @@ Lbl("db", "schedule", "0 3 * * *")
    @@ (<<"com.docker.compose", "project">> :> "shop")

LabelsDb5 == Enable("true") @@ Lbl("db", "type", "volume") @@ Lbl("db", "schedule", "*/5 * * * *")

LabelsTwo ==
    Enable("1") @@ (<<LabelPrefix, "notify">> :> "slack, mail")
    @@ Lbl("db", "type", "postgres") @@ Lbl("db", "schedule", "0 3 * * *")
    @@ Lbl("files", "type", "volume") @@ Lbl("files", "schedule", "0 4 * * *")
    @@ Lbl("files", "retention", "3") @@ Lbl("files", "storage", "s3")
    @@ Lbl("files", "notify", "mail")

\* a has an unregistered type, db has a schedule the cron parser rejects;
\* files is fine
LabelsBadCron ==
    Enable("true") @@ Lbl("a", "type", "mongo") @@ Lbl("a", "schedule", "* * * * *")
    @@ Lbl("db", "type", "volume") @@ Lbl("db", "schedule", "invalid cron")
    @@ Lbl("files", "type", "volume") @@ Lbl("files", "schedule", "0 4 * * *")

\* a has an unregistered type, files an unknown pool, db is fine;
\* enable.type uses a reserved name as a config name
LabelsUnresolved ==
    Enable("true") @@ Lbl("a", "type", "mongo") @@ Lbl("a", "schedule", "* * * * *")
    @@ Lbl("db", "type", "volume") @@ Lbl("db", "schedule", "0 3 * * *")
    @@ Lbl("files", "type", "volume") @@ Lbl("files", "schedule", "0 4 * * *")
    @@ Lbl("files", "storage", "nope") @@ Lbl("enable", "type", "foo")

\* the label sets a container of the model may carry
LabelChoices(id) ==
    IF id = "c1"
    THEN {LabelsOff, LabelsBadBool, LabelsDb3, LabelsDb5, LabelsBadCron, LabelsUnresolved}
    ELSE {LabelsOff, LabelsTwo}

\* Client.ListContainers: the running containers (All: false)
Running == {c \in ContainerIDs : rt[c].state = "running"}

Parsed(c) == ParseLabels(c, NameOf(c), rt[c].labels)

(***************************************************************************)
(* internal/backup/manager.go: reconciliation                              *)
(***************************************************************************)
makeJobKey(containerID, configName) == containerID \o ":" \o configName

configsEqual(a, b) ==
    /\ Len(a) = Len(b)
    /\ \A i \in DOMAIN a :
          /\ a[i].Name = b[i].Name
          /\ a[i].BackupType = b[i].BackupType
          /\ a[i].Schedule = b[i].Schedule
          /\ a[i].Retention = b[i].Retention
          /\ a[i].Storage = b[i].Storage

\* the closure scheduleBackupConfig hands to the Scheduler: what it captures
JobOf(containerID, cfg, backup) ==
    [containerID |-> containerID, cfg |-> cfg, backup |-> backup]

scheduleBackupConfig(s, containerID, cfg, backup) ==
    IF backup.BackupType \notin RegisteredTypes THEN s
    ELSE IF ~GetForContainer(backup.Storage) THEN s
    ELSE AddJob(s, makeJobKey(containerID, backup.Name), backup.Schedule,
                JobOf(containerID, cfg, backup)).s

\* the loop "for _, backup := range cfg.Backups { RemoveJob(makeJobKey(...)) }"
RECURSIVE removeJobs(_, _, _)
removeJobs(s, containerID, backups) ==
    IF backups = <<>> THEN s
    ELSE removeJobs(RemoveJob(s, makeJobKey(containerID, Head(backups).Name)),
                    containerID, Tail(backups))

\* a loop that gives up at the first config without a producer or a pool
RECURSIVE scheduleAllStopsAtUnresolved(_, _, _, _)
scheduleAllStopsAtUnresolved(s, containerID, cfg, backups) ==
    IF backups = <<>> THEN s
    ELSE IF Head(backups).BackupType \notin RegisteredTypes
            \/ ~GetForContainer(Head(backups).Storage) THEN s
    ELSE scheduleAllStopsAtUnresolved(scheduleBackupConfig(s, containerID, cfg, Head(backups)),
                                      containerID, cfg, Tail(backups))

\* the loop "for _, backup := range cfg.Backups { scheduleBackupConfig(...) }"
RECURSIVE scheduleAll(_, _, _, _)
scheduleAll(s, containerID, cfg, backups) ==
    IF backups = <<>> THEN s
    ELSE scheduleAll(scheduleBackupConfig(s, containerID, cfg, Head(backups)),
                     containerID, cfg, Tail(backups))

\* scheduleContainer without the removal of the jobs of the stored plan
scheduleContainerNoRemove(m, containerID, cfg) ==
    [containers |-> [x \in (DOMAIN m.containers) \cup {containerID} |->
                        IF x = containerID THEN cfg ELSE m.containers[x]],
     scheduler |-> scheduleAll(m.scheduler, containerID, cfg, cfg.Backups)]

\* a Manager state is [containers, scheduler]
scheduleContainer(m, containerID, cfg) ==
    LET s0 == IF containerID \in DOMAIN m.containers
              THEN removeJobs(m.scheduler, containerID, m.containers[containerID].Backups)
              ELSE m.scheduler
    IN  [containers |-> [x \in (DOMAIN m.containers) \cup {containerID} |->
                            IF x = containerID THEN cfg ELSE m.containers[x]],
         scheduler |-> scheduleAll(s0, containerID, cfg, cfg.Backups)]

addContainer(m, containerID) ==
    IF rt[containerID].state = "absent" THEN m          \* GetContainer fails
    ELSE IF Parsed(containerID).err THEN m
    ELSE IF ~Parsed(containerID).cfg.Enabled THEN m
    ELSE scheduleContainer(m, containerID, Parsed(containerID).cfg)

\* removeContainer that forgets the Scheduler
removeContainerKeepsJobs(m, containerID) ==
    IF containerID \in DOMAIN m.containers
    THEN [containers |-> Without(m.containers, containerID), scheduler |-> m.scheduler]
    ELSE m

removeContainer(m, containerID) ==
    IF containerID \in DOMAIN m.containers
    THEN [containers |-> Without(m.containers, containerID),
          scheduler |-> removeJobs(m.scheduler, containerID, m.containers[containerID].Backups)]
    ELSE m

\* the first loop of syncContainers, over the listed containers in list order
RECURSIVE syncSeen(_, _)
syncSeen(m, listed) ==
    IF listed = <<>> THEN m
    ELSE LET c == Head(listed)
             p == Parsed(c)
             m1 == IF p.err \/ ~p.cfg.Enabled THEN m
                   ELSE IF c \in DOMAIN m.containers
                           /\ configsEqual(m.containers[c].Backups, p.cfg.Backups) THEN m
                   ELSE scheduleContainer(m, c, p.cfg)
         IN  syncSeen(m1, Tail(listed))

\* the second loop of syncContainers: the tracked containers not seen
RECURSIVE syncUnseen(_, _)
syncUnseen(m, unseen) ==
    IF unseen = {} THEN m
    ELSE LET c == CHOOSE x \in unseen : TRUE
         IN  syncUnseen(removeContainer(m, c), unseen \ {c})

syncContainers(m, listed) ==
    LET m1 == syncSeen(m, listed)
    IN  syncUnseen(m1, (DOMAIN m1.containers) \ Range(listed))

(***************************************************************************)
(* The host filesystem and the volumes                                     *)
(***************************************************************************)
\* a path is the sequence of its components below "/"
VolumePath(volumeName) == <<"vols", volumeName>>

File(data) == [type |-> "file", data |-> data]

Dir == [type |-> "dir", data |-> ""]

\* two volumes with a file each, and a file outside of the volumes
InitFs ==
    (<<"vols", "v1", "f">> :> File("old")) @@ (<<"vols", "v2", "g">> :> File("old"))
    @@ (<<"etc", "x">> :> File("old"))

\* no backup or restore is in progress
IdleOp == [pc |-> "idle"]

\* runDaemon waiting for a signal: the ambient context is live, cron and both
\* servers run, no job runs, and the watcher goroutine has just been started
\* (it has not subscribed to the event stream yet)
DaemonServing ==
    [pc |-> "serving", ctxCancelled |-> FALSE, cron |-> "running",
     api |-> "open", dash |-> "open", execs |-> <<>>, killed |-> {},
     stream |-> "none", watcher |-> "outer"]

(***************************************************************************)
(* SpecSched: the Scheduler under direct calls                             *)
(***************************************************************************)
SchedKeys == {"c1:db", "c1:files", "c2:db"}

SchedSchedules == {"0 3 * * *", "*/5 * * * *", "invalid cron", "@daily", "0 0 3 * * *"}

SchedJobs == {"fn1", "fn2"}

\* neither the event-stream goroutine nor the polling goroutine is inside
\* handleEvent
IdleTask == [pc |-> "idle", cid |-> "", cfg |-> <<>>, rest |-> <<>>]

HandlersIdle == [ev |-> IdleTask, poll |-> IdleTask, listed |-> <<>>, seen |-> {}]

\* no operation emits, no notification task exists, the task clock is at 0,
\* the ambient context of the operation is live
NoTasks == [pc |-> "idle", op |-> "none", container |-> <<>>, own |-> <<>>,
            providers |-> <<>>, waits |-> 0, tasks |-> <<>>, now |-> 0, ctx |-> "live"]

IdleRuntime == [c \in ContainerIDs |-> [state |-> "absent", labels |-> LabelsOff]]

EmptyStore == [p \in Pools |-> <<>>]

InitSched ==
    /\ rt = IdleRuntime
    /\ evq = <<>>
    /\ containers = <<>>
    /\ scheduler = NewScheduler
    /\ store = EmptyStore
    /\ clock = 0
    /\ fs = InitFs
    /\ vop = IdleOp
    /\ dmn = DaemonServing
    /\ ntf = NoTasks
    /\ hnd = HandlersIdle
    /\ last = [op |-> "init"]

SchedAddJob(key, schedule, job) ==
    /\ scheduler.next < MaxEntryID
    /\ scheduler' = AddJob(scheduler, key, schedule, job).s
    /\ last' = [op |-> "AddJob", key |-> key, schedule |-> schedule,
                err |-> AddJob(scheduler, key, schedule, job).err,
                had |-> HasJob(scheduler, key), job |-> job]
    /\ UNCHANGED <<rt, evq, containers, store, clock, volVars, dmn, ntf, hnd>>

SchedRemoveJob(key) ==
    /\ scheduler' = RemoveJob(scheduler, key)
    /\ last' = [op |-> "RemoveJob", key |-> key, had |-> HasJob(scheduler, key)]
    /\ UNCHANGED <<rt, evq, containers, store, clock, volVars, dmn, ntf, hnd>>

\* Scheduler.ListJobs under the read lock: the state is left as it is
SchedListJobs ==
    /\ last' = [op |-> "ListJobs", jobs |-> ListJobs(scheduler)]
    /\ UNCHANGED <<rt, evq, containers, scheduler, store, clock, volVars, dmn, ntf, hnd>>

NextSched ==
    \/ \E key \in SchedKeys, schedule \in SchedSchedules, job \in SchedJobs :
          SchedAddJob(key, schedule, job)
    \/ \E key \in SchedKeys : SchedRemoveJob(key)
    \/ SchedListJobs

SpecSched == InitSched /\ [][NextSched]_vars

(***************************************************************************)
(* SpecCoord: the runtime, its events, and the Manager's handlers          *)
(***************************************************************************)
InitCoord ==
    /\ rt = IdleRuntime
    /\ evq = <<>>
    /\ containers = <<>>
    /\ scheduler = NewScheduler
    /\ store = EmptyStore
    /\ clock = 0
    /\ fs = InitFs
    /\ vop = IdleOp
    /\ dmn = DaemonServing
    /\ ntf = NoTasks
    /\ hnd = HandlersIdle
    /\ last = [op |-> "init"]

Manager == [containers |-> containers, scheduler |-> scheduler]

\* the job keys the Scheduler holds for a container (by what the job captured)
JobKeysOf(s, c) == {k \in DOMAIN s.jobs : s.entries[s.jobs[k]].job.containerID = c}

\* the JobKeys of a plan
PlanKeys(cfg) == {makeJobKey(cfg.ContainerID, b.Name) : b \in Range(cfg.Backups)}

\* plan equality of the data model: the same JobKey set and, per JobKey, the
\* same (backup_type, schedule, retention, pool)
PlanTuples(cfg) ==
    {<<makeJobKey(cfg.ContainerID, b.Name), b.BackupType, b.Schedule, b.Retention, b.Storage>> :
        b \in Range(cfg.Backups)}

PlanEqual(p, q) == PlanTuples(p) = PlanTuples(q)

\* inspecting c and parsing its labels gives an enabled plan
FreshPlan(c) == rt[c].state /= "absent" /\ ~Parsed(c).err /\ Parsed(c).cfg.Enabled

\* c is tracked and its fresh plan equals / differs from the stored one
SamePlan(c) ==
    c \in DOMAIN containers /\ FreshPlan(c) /\ PlanEqual(containers[c], Parsed(c).cfg)

ChangedPlan(c) ==
    c \in DOMAIN containers /\ FreshPlan(c) /\ ~PlanEqual(containers[c], Parsed(c).cfg)

SetManager(m) ==
    /\ m.scheduler.next <= MaxEntryID
    /\ containers' = m.containers
    /\ scheduler' = m.scheduler

\* docker run / docker start: the container runs and a start event is emitted
DockerStart(c, labels) ==
    /\ rt[c].state /= "running"
    /\ Len(evq) < MaxQueue
    /\ rt' = [rt EXCEPT ![c] = [state |-> "running",
                                labels |-> IF rt[c].state = "absent" THEN labels ELSE rt[c].labels]]
    /\ evq' = Append(evq, [Action |-> "start", ID |-> c])
    /\ last' = [op |-> "docker"]
    /\ UNCHANGED <<containers, scheduler, store, clock, volVars, dmn, ntf, hnd>>

\* docker stop / the main process exits: a stop or a die event is emitted
DockerStop(c, action) ==
    /\ rt[c].state = "running"
    /\ Len(evq) < MaxQueue
    /\ rt' = [rt EXCEPT ![c].state = "stopped"]
    /\ evq' = Append(evq, [Action |-> action, ID |-> c])
    /\ last' = [op |-> "docker"]
    /\ UNCHANGED <<containers, scheduler, store, clock, volVars, dmn, ntf, hnd>>

\* docker rm
DockerRemove(c) ==
    /\ rt[c].state = "stopped"
    /\ rt' = [rt EXCEPT ![c] = [state |-> "absent", labels |-> LabelsOff]]
    /\ last' = [op |-> "docker"]
    /\ UNCHANGED <<evq, containers, scheduler, store, clock, volVars, dmn, ntf, hnd>>

\* the labels of a container change (the container is recreated under its id)
DockerRelabel(c, labels) ==
    /\ rt[c].state /= "absent"
    /\ rt[c].labels /= labels
    /\ rt' = [rt EXCEPT ![c].labels = labels]
    /\ last' = [op |-> "docker"]
    /\ UNCHANGED <<evq, containers, scheduler, store, clock, volVars, dmn, ntf, hnd>>

\* watchEvents hands the next event to Manager.handleEvent
HandleEvent ==
    /\ evq /= <<>>
    /\ LET e == Head(evq)
       IN  /\ SetManager(IF e.Action = "start" THEN addContainer(Manager, e.ID)
                         ELSE removeContainer(Manager, e.ID))
           /\ last' = [op |-> e.Action, cid |-> e.ID,
                       tracked |-> e.ID \in DOMAIN containers,
                       hadJobs |-> JobKeysOf(scheduler, e.ID) /= {},
                       same |-> SamePlan(e.ID), changed |-> ChangedPlan(e.ID)]
    /\ evq' = Tail(evq)
    /\ UNCHANGED <<rt, store, clock, volVars, dmn, ntf, hnd>>

\* pollContainers hands a sync event to Manager.handleEvent;
\* listed is the runtime's answer, in the order the runtime gives it
SyncTick(listed) ==
    /\ SetManager(syncContainers(Manager, listed))
    /\ last' = [op |-> "sync", seen |-> Range(listed),
                tracked |-> DOMAIN containers,
                hadJobs |-> {c \in ContainerIDs : JobKeysOf(scheduler, c) /= {}},
                same |-> {c \in Range(listed) : SamePlan(c)},
                changed |-> {c \in Range(listed) : ChangedPlan(c)}]
    /\ UNCHANGED <<rt, evq, store, clock, volVars, dmn, ntf, hnd>>

\* ListContainers fails: syncContainers returns the error and changes nothing
SyncListFails ==
    /\ last' = [op |-> "syncfailed"]
    /\ UNCHANGED <<rt, evq, containers, scheduler, store, clock, volVars, dmn, ntf, hnd>>

ListOrders(S) == {q \in UNION {[1..n -> S] : n \in {Cardinality(S)}} : Range(q) = S}

NextCoord ==
    \/ \E c \in ContainerIDs : \E labels \in LabelChoices(c) : DockerStart(c, labels)
    \/ \E c \in ContainerIDs : \E action \in {"stop", "die"} : DockerStop(c, action)
    \/ \E c \in ContainerIDs : DockerRemove(c)
    \/ \E c \in ContainerIDs : \E labels \in LabelChoices(c) : DockerRelabel(c, labels)
    \/ HandleEvent
    \/ \E listed \in ListOrders(Running) : SyncTick(listed)
    \/ SyncListFails

SpecCoord == InitCoord /\ [][NextCoord]_vars

(***************************************************************************)
(* Storage sinks (local, s3) and internal/retention                        *)
(***************************************************************************)
\* matchesPrefix of the local sink; the s3 sink lists by the same string prefix
matchesPrefix(key, prefix) ==
    Len(key) >= Len(prefix) /\ SubSeq(key, 1, Len(prefix)) = prefix

\* Storage.List: the keys of a sink under a prefix (the caller sorts)
List(st, prefix) == {k \in DOMAIN st : matchesPrefix(k, prefix)}

PoolType(pool) == IF pool = "s3" THEN "s3" ELSE "local"

\* the pool GetForContainer resolves a storage name to
ResolvePool(storageName) == IF storageName /= "" THEN storageName ELSE DefaultPool

\* Storage.Store with its outcome: "ok", "create" (the file or upload could not
\* be created) or "copy" (the write failed part-way).  The local sink has then
\* truncated the file and removes it; the s3 upload leaves the object as it was.
Store(st, pool, key, file, outcome) ==
    CASE outcome = "ok" -> [k \in (DOMAIN st) \cup {key} |-> IF k = key THEN file ELSE st[k]]
      [] outcome = "copy" /\ PoolType(pool) = "local" -> Without(st, key)
      [] OTHER -> st

\* Storage.Delete without an I/O failure: removing an absent key is a success
Delete(st, key) == Without(st, key)

\* a sort that leaves the oldest entry first
OldestFirstOrders(st, keys) ==
    {q \in [1..Cardinality(keys) -> keys] :
        /\ Range(q) = keys
        /\ \A i, j \in DOMAIN q : i < j => st[q[i]].mtime <= st[q[j]].mtime}

\* the orders sort.Slice(newest first) can leave a listing in
SortedOrders(st, keys) ==
    {q \in [1..Cardinality(keys) -> keys] :
        /\ Range(q) = keys
        /\ \A i, j \in DOMAIN q : i < j => st[q[i]].mtime >= st[q[j]].mtime}

\* the loop "for i := keepCount; i < len(files); i++" of Enforce, from index i
RECURSIVE enforceFrom(_, _, _, _)
enforceFrom(st, order, i, delFail) ==
    IF i > Len(order) THEN [st |-> st, deleted |-> 0]
    ELSE IF order[i] \in delFail
         THEN enforceFrom(st, order, i + 1, delFail)
         ELSE LET r == enforceFrom(Delete(st, order[i]), order, i + 1, delFail)
              IN  [st |-> r.st, deleted |-> r.deleted + 1]

\* Enforce that keeps one entry more than keepCount
EnforceKeepsOneMore(st, storageName, prefix, keepCount, listOk, order, delFail) ==
    IF ~GetForContainer(storageName) \/ ~listOk THEN [st |-> st, deleted |-> 0, err |-> TRUE]
    ELSE IF Cardinality(List(st, prefix)) <= keepCount THEN [st |-> st, deleted |-> 0, err |-> FALSE]
    ELSE LET r == enforceFrom(st, order, keepCount + 2, delFail)
         IN  [st |-> r.st, deleted |-> r.deleted, err |-> FALSE]

\* retention.Manager.Enforce on the sink st of the pool: [st, deleted, err].
\* listOk: List succeeds; order: the listing as sorted; delFail: the keys whose
\* Delete fails.
Enforce(st, storageName, prefix, keepCount, listOk, order, delFail) ==
    IF ~GetForContainer(storageName) \/ ~listOk THEN [st |-> st, deleted |-> 0, err |-> TRUE]
    ELSE IF Cardinality(List(st, prefix)) <= keepCount THEN [st |-> st, deleted |-> 0, err |-> FALSE]
    ELSE LET r == enforceFrom(st, order, keepCount + 1, delFail)
         IN  [st |-> r.st, deleted |-> r.deleted, err |-> FALSE]

(***************************************************************************)
(* internal/backup/manager.go: backup runs                                 *)
(***************************************************************************)
Digits == <<"0", "1", "2", "3", "4", "5", "6", "7", "8", "9">>

D2(n) == Digits[(n \div 10) + 1] \o Digits[(n % 10) + 1]

\* the instant of clock 0: 2024-10-26 23:59:59 UTC, in seconds after midnight
ClockBase == 86399

\* the local time zone of the daemon (TZ; the image ships tzdata)
Zones == {"UTC", "Europe/Berlin"}

\* the instant, in seconds after clock 0, at which summer time ends in
\* Europe/Berlin: 2024-10-27 01:00:00 UTC
DstEnd == 3601

\* seconds east of UTC of a zone at an instant
ZoneOffset(zone, instant) ==
    IF zone = "UTC" THEN 0 ELSE IF instant < DstEnd THEN 7200 ELSE 3600

\* the wall clock reading of time.Now() in the zone, in seconds after the
\* reading 2024-10-26 23:59:59; the readings of UTC are the instants
WallClock(zone, instant) == instant + ZoneOffset(zone, instant)

\* t.Format("2006-01-02") and t.Format("150405") of the wall clock reading t
FormatDate(t) == "2024-10-" \o D2(26 + ((ClockBase + t) \div 86400))

FormatTime(t) ==
    LET sod == (ClockBase + t) % 86400
    IN  D2(sod \div 3600) \o D2((sod % 3600) \div 60) \o D2(sod % 60)

generateBackupKey(containerName, path, extension, t) ==
    containerName \o "/" \o path \o "/" \o FormatDate(t) \o "/" \o FormatTime(t) \o extension

\* BackupType.FileExtension of the registered types
FileExtension(backupType) == ".tar.zst"

\* a variant of getNotifyProviders that adds the container's names to the
\* config's own
getNotifyProvidersMerged(cfg, backup) == backup.Notify \o cfg.Notify

getNotifyProviders(cfg, backup) ==
    IF Len(backup.Notify) > 0 THEN backup.Notify ELSE cfg.Notify

\* Manager.notify: the call, with the providers it names; the notification
\* manager is invoked only for a non-empty provider list
notify(event, providers) == <<[event EXCEPT !.providers = providers]>>

Delivered(events) == SelectSeq(events, LAMBDA e : Len(e.providers) > 0)

Event(type, cfg, backup, key) ==
    [Type |-> type, ContainerName |-> cfg.ContainerName, BackupType |-> backup.BackupType,
     BackupKey |-> key, Size |-> 0, Error |-> "", providers |-> <<>>]

\* the bytes.Buffer of runBackup once store.Store has returned nil: io.Copy
\* and the uploader have read the buffer to its end, and what Len() counts
\* is the unread portion
UnreadAfterStore(content) == ""

\* what can go wrong in one run: nothing, or one of GetContainer, Validate,
\* Backup, Store (create / copy), List, Delete
Faults == {"none", "inspect", "validate", "backup", "create", "copy", "list", "delete"}

\* how a run ends when the step of the fault is reached
FaultOutcome(fault) ==
    CASE fault = "inspect" -> "inspect_failed"
      [] fault = "validate" -> "validate_failed"
      [] fault = "backup" -> "backup_failed"
      [] fault \in {"create", "copy"} -> "store_failed"
      [] OTHER -> "completed"

\* the bytes backupType.Backup writes into the buffer: they are the data of
\* the container when the run reads it, which differs from run to run
Contents == {"v1", "v2"}

\* runBackup up to and including Store: [store, events, outcome, key]
runBackupStore(sts, containerID, cfg, backup, fault, now, content) ==
    LET providers == getNotifyProviders(cfg, backup)
        key == generateBackupKey(cfg.ContainerName, backup.Name,
                                 FileExtension(backup.BackupType), now)
        pool == ResolvePool(backup.Storage)
        failed(k, msg) == notify([Event("backup_failed", cfg, backup, k) EXCEPT !.Error = msg],
                                 providers)
        res(st, ev, out, k) == [store |-> st, events |-> ev, outcome |-> out, key |-> k]
    IN  IF fault = "inspect" \/ rt[containerID].state = "absent"
        THEN res(sts, failed("", "inspect"), "inspect_failed", "")
        ELSE IF rt[containerID].state /= "running" THEN res(sts, <<>>, "not_running", "")
        ELSE IF fault = "validate" THEN res(sts, failed("", "validate"), "validate_failed", "")
        ELSE IF ~GetForContainer(backup.Storage)
        THEN res(sts, failed("", "storage"), "storage_failed", "")
        ELSE IF fault = "backup" THEN res(sts, failed(key, "backup"), "backup_failed", key)
        ELSE IF fault \in {"create", "copy"}
        THEN res([sts EXCEPT ![pool] = Store(sts[pool], pool, key,
                                            [mtime |-> now, data |-> <<containerID, backup.Name, content>>],
                                            fault)],
                 failed(key, "store"), "store_failed", key)
        ELSE res([sts EXCEPT ![pool] = Store(sts[pool], pool, key,
                                            [mtime |-> now, data |-> <<containerID, backup.Name, content>>],
                                            "ok")],
                 notify([Event("backup_completed", cfg, backup, key)
                            EXCEPT !.Size = Len(UnreadAfterStore(content))], providers),
                 "completed", key)

\* runBackup: every result the run can have, over what can go wrong (nothing
\* unless mayFail) and over the orders the sort can give.  A result records
\* the run for the properties.
runBackup(sts, containerID, cfg, backup, now, mayFail) ==
    UNION {
      LET fault == fc[1]
          r == runBackupStore(sts, containerID, cfg, backup, fault, now, fc[2])
          pool == ResolvePool(backup.Storage)
          prefix == cfg.ContainerName \o "/" \o backup.Name \o "/"
          run == [config |-> backup.Name, retention |-> backup.Retention, pool |-> pool,
                  prefix |-> prefix, fault |-> fault, outcome |-> r.outcome, key |-> r.key,
                  events |-> r.events, deleted |-> 0, retentionFailed |-> FALSE,
                  written |-> Len(fc[2])]
      IN  IF fault /= "none" /\ r.outcome /= FaultOutcome(fault) THEN {}
          ELSE IF r.outcome /= "completed" /\ fc[2] /= "v1" THEN {}
          ELSE IF r.outcome /= "completed" THEN {[store |-> r.store, run |-> run]}
          ELSE LET listed == List(r.store[pool], prefix)
                   choices == { od \in SortedOrders(r.store[pool], listed) \X SUBSET listed :
                                  IF fault = "delete"
                                  THEN od[2] /= {} /\ od[2] \subseteq
                                         {od[1][i] : i \in (backup.Retention + 1)..Len(od[1])}
                                  ELSE od[2] = {} }
               IN  { LET e == Enforce(r.store[pool], backup.Storage, prefix, backup.Retention,
                                      fault /= "list", od[1], od[2])
                     IN  [store |-> [r.store EXCEPT ![pool] = e.st],
                          run |-> [run EXCEPT !.deleted = e.deleted,
                                              !.retentionFailed = e.err \/ od[2] /= {}]] :
                       od \in choices }
      : fc \in (IF mayFail THEN Faults ELSE {"none"}) \X Contents }

\* the loop "for _, backup := range configsToRun" of TriggerBackup: every
\* result [store, runs, err], with at most one run of the loop going wrong
RECURSIVE triggerRuns(_, _, _, _, _, _)
triggerRuns(sts, containerID, cfg, configs, now, mayFail) ==
    IF configs = <<>> THEN {[store |-> sts, runs |-> <<>>, err |-> FALSE]}
    ELSE IF Head(configs).BackupType \notin RegisteredTypes
    THEN {[store |-> sts, runs |-> <<>>, err |-> TRUE]}
    ELSE UNION {
           { [rest EXCEPT !.runs = <<r.run>> \o rest.runs] :
               rest \in triggerRuns(r.store, containerID, cfg, Tail(configs), now,
                                    mayFail /\ r.run.fault = "none") }
           : r \in runBackup(sts, containerID, cfg, Head(configs), now, mayFail) }

\* findContainerConfig: [err, cfg, id]; listOk: ListContainers succeeds
findContainerConfig(containerName, listOk) ==
    LET tracked == {id \in DOMAIN containers : containers[id].ContainerName = containerName}
        running == {id \in Running : NameOf(id) = containerName}
        none == [err |-> TRUE, cfg |-> <<>>, id |-> ""]
    IN  IF tracked /= {}
        THEN LET id == CHOOSE x \in tracked : TRUE
             IN  [err |-> FALSE, cfg |-> containers[id], id |-> id]
        ELSE IF ~listOk \/ running = {} THEN none
        ELSE LET id == CHOOSE x \in running : TRUE
             IN  IF Parsed(id).err THEN none
                 ELSE [err |-> FALSE, cfg |-> Parsed(id).cfg, id |-> id]

findBackupConfig(cfg, configName) ==
    SelectSeq(cfg.Backups, LAMBDA b : b.Name = configName)

\* TriggerBackup(containerName, configName): every result [store, runs, err]
TriggerBackup(sts, containerName, configName, listOk, now) ==
    LET f == findContainerConfig(containerName, listOk)
        fail == {[store |-> sts, runs |-> <<>>, err |-> TRUE]}
    IN  IF f.err THEN fail
        ELSE IF ~f.cfg.Enabled THEN fail
        ELSE IF configName /= "" /\ findBackupConfig(f.cfg, configName) = <<>> THEN fail
        ELSE triggerRuns(sts, f.id, f.cfg,
                         IF configName /= "" THEN <<Head(findBackupConfig(f.cfg, configName))>>
                         ELSE f.cfg.Backups,
                         now, TRUE)

\* Server.handleBackupRun: the response to POST /backup/run/{container_name}
handleBackupRun(containerName, err) ==
    IF containerName = "" THEN [status |-> 400, success |-> FALSE]
    ELSE IF err THEN [status |-> 500, success |-> FALSE]
    ELSE [status |-> 200, success |-> TRUE]

(***************************************************************************)
(* SpecBackup: backup runs of a Manager that tracks two containers         *)
(***************************************************************************)
\* web: a names a pool that does not exist, db keeps 2 on the default pool,
\* files keeps 1 on s3 and has its own notification providers
LabelsRun ==
    Enable("true") @@ (<<LabelPrefix, "notify">> :> "slack")
    @@ Lbl("a", "type", "volume") @@ Lbl("a", "schedule", "* * * * *")
    @@ Lbl("a", "storage", "nope")
    @@ Lbl("db", "type", "volume") @@ Lbl("db", "schedule", "0 3 * * *")
    @@ Lbl("db", "retention", "2")
    @@ Lbl("files", "type", "volume") @@ Lbl("files", "schedule", "0 4 * * *")
    @@ Lbl("files", "retention", "1") @@ Lbl("files", "storage", "s3")
    @@ Lbl("files", "notify", "mail")

\* db1 runs without backup labels enabled: the Manager does not track it
BackupLabels(c) == IF c = "c1" THEN LabelsRun ELSE LabelsOff

\* what a sink may hold before the daemon starts: nothing, one older backup
\* of web/db, or a file of web/db whose modification time lies ahead
OldFile == ("web/db/2024-10-25/030000.tar.zst" :> [mtime |-> 0 - 5, data |-> <<"c1", "db", "v1">>])

AheadFile == ("web/db/2024-10-30/030000.tar.zst" :> [mtime |-> 9, data |-> <<"c1", "db", "v1">>])

PriorStores ==
    {EmptyStore, [EmptyStore EXCEPT !["local"] = OldFile], [EmptyStore EXCEPT !["local"] = AheadFile]}

InitBackup ==
    /\ rt = [c \in ContainerIDs |-> [state |-> "running", labels |-> BackupLabels(c)]]
    /\ evq = <<>>
    /\ containers = syncContainers([containers |-> <<>>, scheduler |-> NewScheduler], <<"c1", "c2">>).containers
    /\ scheduler = syncContainers([containers |-> <<>>, scheduler |-> NewScheduler], <<"c1", "c2">>).scheduler
    /\ store \in PriorStores
    /\ clock = 0
    /\ fs = InitFs
    /\ vop = IdleOp
    /\ dmn = DaemonServing
    /\ ntf = NoTasks
    /\ hnd = HandlersIdle
    /\ last = [op |-> "init"]

\* a second passes
BackupTick ==
    /\ clock < MaxClock
    /\ clock' = clock + 1
    /\ last' = [op |-> "tick"]
    /\ UNCHANGED <<rt, evq, containers, scheduler, store, volVars, dmn, ntf, hnd>>

\* the container stops or starts again; the Manager has not handled the
\* event yet
RuntimeStop(c) ==
    /\ rt[c].state = "running"
    /\ rt' = [rt EXCEPT ![c].state = "stopped"]
    /\ last' = [op |-> "docker"]
    /\ UNCHANGED <<evq, containers, scheduler, store, clock, volVars, dmn, ntf, hnd>>

RuntimeStart(c) ==
    /\ rt[c].state = "stopped"
    /\ rt' = [rt EXCEPT ![c].state = "running"]
    /\ last' = [op |-> "docker"]
    /\ UNCHANGED <<evq, containers, scheduler, store, clock, volVars, dmn, ntf, hnd>>

\* the cron entry of a job fires: the closure of scheduleBackupConfig runs
\* runBackup with the plan it captured
CronFire(key) ==
    /\ key \in DOMAIN scheduler.jobs
    /\ LET job == scheduler.entries[scheduler.jobs[key]].job
       IN  \E r \in runBackup(store, job.containerID, job.cfg, job.backup, clock, TRUE) :
             /\ store' = r.store
             /\ last' = [op |-> "cron", container |-> job.containerID,
                         running |-> rt[job.containerID].state = "running",
                         runs |-> <<r.run>>, err |-> FALSE]
    /\ UNCHANGED <<rt, evq, containers, scheduler, clock, volVars, dmn, ntf, hnd>>

\* the container a trigger by name resolves to ("" when none)
TriggerTarget(containerName) ==
    LET f == findContainerConfig(containerName, TRUE) IN IF f.err THEN "" ELSE f.id

\* whether ListContainers succeeds, where findContainerConfig calls it
ListOutcomes(containerName) ==
    IF \E id \in DOMAIN containers : containers[id].ContainerName = containerName
    THEN {TRUE} ELSE BOOLEAN

\* Manager.TriggerBackup(containerName, configName), as the dashboard calls it
ManagerTrigger(containerName, configName) ==
    /\ \E listOk \in ListOutcomes(containerName) :
         \E r \in TriggerBackup(store, containerName, configName, listOk, clock) :
           /\ store' = r.store
           /\ last' = [op |-> "trigger", container |-> TriggerTarget(containerName),
                       running |-> containerName \in {NameOf(c) : c \in Running},
                       runs |-> r.runs, err |-> r.err]
    /\ UNCHANGED <<rt, evq, containers, scheduler, clock, volVars, dmn, ntf, hnd>>

TriggerNames == {"web", "db1", "ghost", ""}

\* the paths after /backup/run/ and the config names a request may carry
RunPaths == TriggerNames \cup {"web/db"}

RunConfigs == {"", "db"}

\* POST /backup/run/{container_name}, with or without a config name in the
\* query as the dashboard's trigger takes it: handleBackupRun reads the path
\* only, calls TriggerBackup for the whole of it as the container name,
\* without a config name, and answers with what it returned
RpcBackupRun(containerName) ==
    /\ \E listOk \in ListOutcomes(containerName) :
         \E r \in IF containerName = ""
                  THEN {[store |-> store, runs |-> <<>>, err |-> FALSE]}
                  ELSE TriggerBackup(store, containerName, "", listOk, clock) :
          \E configName \in RunConfigs :
           /\ store' = r.store
           /\ last' = [op |-> "rpc", container |-> TriggerTarget(containerName),
                       running |-> containerName \in {NameOf(c) : c \in Running},
                       runs |-> r.runs, err |-> r.err, config |-> configName,
                       response |-> handleBackupRun(containerName, r.err)]
    /\ UNCHANGED <<rt, evq, containers, scheduler, clock, volVars, dmn, ntf, hnd>>

TriggerConfigs == {"a", "db", "files", "zz"}

NextBackup ==
    \/ BackupTick
    \/ \E c \in DOMAIN containers : RuntimeStop(c)
    \/ \E c \in DOMAIN containers : RuntimeStart(c)
    \/ \E key \in DOMAIN scheduler.jobs : CronFire(key)
    \/ \E n \in TriggerNames \ {""} : \E cn \in TriggerConfigs : ManagerTrigger(n, cn)
    \/ \E n \in RunPaths : RpcBackupRun(n)

SpecBackup == InitBackup /\ [][NextBackup]_vars

(***************************************************************************)
(* internal/backuptypes/volume: the volume backup type                     *)
(***************************************************************************)
\* filepath.Clean of an absolute path: "." is dropped, ".." drops the
\* component before it (and nothing at the root)
RECURSIVE CleanFrom(_, _)
CleanFrom(acc, rest) ==
    IF rest = <<>> THEN acc
    ELSE IF Head(rest) = "." THEN CleanFrom(acc, Tail(rest))
    ELSE IF Head(rest) = ".."
         THEN CleanFrom(IF acc = <<>> THEN acc ELSE SubSeq(acc, 1, Len(acc) - 1), Tail(rest))
         ELSE CleanFrom(Append(acc, Head(rest)), Tail(rest))

Clean(path) == CleanFrom(<<>>, path)

\* filepath.Join(base, rel)
Join(base, rel) == Clean(base \o rel)

\* child is parent or begins with parent and a separator
isSubPath(parent, child) ==
    LET pp == Clean(parent)
        cc == Clean(child)
    IN  cc = pp \/ (Len(cc) > Len(pp) /\ SubSeq(cc, 1, Len(pp)) = pp)

Mount(name) == [Type |-> "volume", Name |-> name, Source |-> VolumePath(name)]

\* container.Mounts: c1 mounts v1, a bind mount and v2; c2 mounts v1
ContainerMounts(c) ==
    IF c = "c1"
    THEN <<Mount("v1"), [Type |-> "bind", Name |-> "", Source |-> <<"srv">>], Mount("v2")>>
    ELSE <<Mount("v1")>>

\* the loop "if mount.Type == "volume" { volumeNames = append(...) }"
volumeNames(mounts) ==
    LET vm == SelectSeq(mounts, LAMBDA m : m.Type = "volume")
    IN  [i \in DOMAIN vm |-> vm[i].Name]

\* the map volumePaths of Restore
volumePaths(mounts) ==
    [n \in Range(volumeNames(mounts)) |-> VolumePath(n)]

\* Client.GetContainersUsingVolume: every container, running or not, that
\* mounts the volume
GetContainersUsingVolume(volumeName) ==
    SelectSeq(<<"c1", "c2">>, LAMBDA c : volumeName \in Range(volumeNames(ContainerMounts(c))))

\* restartContainers: StartContainer for every container the invocation
\* stopped; with a cancelled context every StartContainer fails (and is logged)
restartContainers(rtv, stopped, cancelled) ==
    [c \in DOMAIN rtv |->
        IF c \in DOMAIN stopped /\ stopped[c] /\ ~cancelled
        THEN [rtv[c] EXCEPT !.state = "running"]
        ELSE rtv[c]]

\* the loop "for _, c := range containers" of one volume: [rt, stopped, err];
\* stopFail is the container whose StopContainer fails ("" for none)
RECURSIVE stopContainers(_, _, _, _)
stopContainers(rtv, stopped, cs, stopFail) ==
    IF cs = <<>> THEN [rt |-> rtv, stopped |-> stopped, err |-> FALSE]
    ELSE LET c == Head(cs)
         IN  IF c \in DOMAIN stopped THEN stopContainers(rtv, stopped, Tail(cs), stopFail)
             ELSE IF rtv[c].state /= "running"
             THEN stopContainers(rtv, stopped @@ (c :> FALSE), Tail(cs), stopFail)
             ELSE IF c = stopFail THEN [rt |-> rtv, stopped |-> stopped, err |-> TRUE]
             ELSE stopContainers([rtv EXCEPT ![c].state = "stopped"],
                                 stopped @@ (c :> TRUE), Tail(cs), stopFail)

\* the relative paths a volume of the model can hold, in WalkDir order
RelOrder == << <<"d">>, <<"d", "f">>, <<"f">>, <<"g">> >>

Header(name, typeflag, data) == [Name |-> name, Typeflag |-> typeflag, data |-> data]

\* addVolumeToTar: the header of the volume root, then one per entry below it
addVolumeToTar(fsv, volumeName, volumePath) ==
    LET below == SelectSeq(RelOrder, LAMBDA rel : (volumePath \o rel) \in DOMAIN fsv)
    IN  <<Header(<<volumeName>>, "dir", "")>> \o
        [i \in DOMAIN below |->
            LET node == fsv[volumePath \o below[i]]
            IN  Header(<<volumeName>> \o below[i],
                       IF node.type = "dir" THEN "dir" ELSE "reg", node.data)]

\* the loop over container.Mounts of Backup: the archive written
RECURSIVE tarOfMounts(_, _)
tarOfMounts(fsv, mounts) ==
    IF mounts = <<>> THEN <<>>
    ELSE IF Head(mounts).Type /= "volume" THEN tarOfMounts(fsv, Tail(mounts))
    ELSE addVolumeToTar(fsv, Head(mounts).Name, Head(mounts).Source)
         \o tarOfMounts(fsv, Tail(mounts))

\* a variant of clearVolume that leaves the volume as it is
clearVolumeKeeps(fsv, volumePath) == fsv

\* clearVolume: everything below the volume root is removed
clearVolume(fsv, volumePath) ==
    LET keep == {q \in DOMAIN fsv : ~(isSubPath(volumePath, q) /\ q /= Clean(volumePath))}
    IN  [q \in keep |-> fsv[q]]

\* os.MkdirAll(path) below the root: [fs, err]; fails under or at a file
MkdirAll(fsv, root, path) ==
    LET prefixes == {SubSeq(path, 1, n) : n \in (Len(root) + 1)..Len(path)}
        missing == prefixes \ DOMAIN fsv
    IN  IF \E q \in prefixes \cap DOMAIN fsv : fsv[q].type = "file"
        THEN [fs |-> fsv, err |-> TRUE]
        ELSE [fs |-> [q \in (DOMAIN fsv) \cup missing |-> IF q \in missing THEN Dir ELSE fsv[q]],
              err |-> FALSE]

\* the body of the loop of Restore from "parts := ..." on, for one header:
\* [fs, cleared, err]
restoreEntry(fsv, cleared, paths, header) ==
    LET volumeName == header.Name[1]
        relPath == IF Len(header.Name) = 1 THEN <<".">> ELSE Tail(header.Name)
        volumePath == paths[volumeName]
        fs1 == IF volumeName \in cleared THEN fsv ELSE clearVolume(fsv, volumePath)
        cleared1 == cleared \cup {volumeName}
        targetPath == Join(volumePath, relPath)
        res(f, c, e) == [fs |-> f, cleared |-> c, err |-> e]
    IN  IF header.Name = <<>> THEN res(fsv, cleared, FALSE)
        ELSE IF volumeName \notin DOMAIN paths THEN res(fsv, cleared, FALSE)
        ELSE IF ~isSubPath(volumePath, targetPath) THEN res(fs1, cleared1, TRUE)
        ELSE IF header.Typeflag = "dir"
        THEN LET m == MkdirAll(fs1, volumePath, targetPath) IN res(m.fs, cleared1, m.err)
        ELSE LET m == MkdirAll(fs1, volumePath, SubSeq(targetPath, 1, Len(targetPath) - 1))
             IN  IF m.err THEN res(m.fs, cleared1, TRUE)
                 ELSE IF targetPath = volumePath \/
                         (targetPath \in DOMAIN m.fs /\ m.fs[targetPath].type = "dir")
                 THEN res(m.fs, cleared1, TRUE)
                 ELSE res([q \in (DOMAIN m.fs) \cup {targetPath} |->
                              IF q = targetPath THEN File(header.data) ELSE m.fs[q]],
                          cleared1, FALSE)

(***************************************************************************)
(* SpecVolume: a volume backup or restore, step by step                    *)
(***************************************************************************)
\* the archives a restore may be given: what a backup of c1 writes, a nested
\* file ahead of its directory, a file that escapes into the other volume
\* after a good entry, a file that escapes to /etc as the first entry, and
\* entries of an unknown volume and without a name ahead of a good one
ArchiveGood ==
    <<Header(<<"v1">>, "dir", ""), Header(<<"v1", "f">>, "reg", "new"),
      Header(<<"v2">>, "dir", ""), Header(<<"v2", "g">>, "reg", "new")>>

ArchiveNested == <<Header(<<"v1", "d", "f">>, "reg", "new"), Header(<<"v1", "d">>, "dir", "")>>

ArchiveEscapeLate ==
    <<Header(<<"v1", "g">>, "reg", "new"), Header(<<"v1", "..", "v2", "g">>, "reg", "new")>>

ArchiveEscapeFirst == <<Header(<<"v2", "..", "..", "etc", "x">>, "reg", "new")>>

ArchiveUnknown ==
    <<Header(<<"v9", "x">>, "reg", "new"), Header(<<>>, "reg", "new"),
      Header(<<"v1", "f">>, "reg", "new")>>

Archives == {ArchiveGood, ArchiveNested, ArchiveEscapeLate, ArchiveEscapeFirst, ArchiveUnknown}

InitVolume ==
    /\ rt = [c \in ContainerIDs |-> [state |-> "running", labels |-> LabelsOff]]
    /\ evq = <<>>
    /\ containers = <<>>
    /\ scheduler = NewScheduler
    /\ store = EmptyStore
    /\ clock = 0
    /\ fs = InitFs
    /\ vop = IdleOp
    /\ dmn = DaemonServing
    /\ ntf = NoTasks
    /\ hnd = HandlersIdle
    /\ last = [op |-> "init"]

VolIdle == vop.pc \in {"idle", "done"}

\* a container is stopped or started from outside while no backup or restore
\* is in progress
VolRuntimeToggle(c) ==
    /\ VolIdle
    /\ rt' = [rt EXCEPT ![c].state = IF rt[c].state = "running" THEN "stopped" ELSE "running"]
    /\ vop' = IdleOp
    /\ last' = [op |-> "docker"]
    /\ UNCHANGED <<evq, containers, scheduler, store, clock, fs, dmn, ntf, hnd>>

\* Backup or Restore is called for a container: the volume names are collected
VolInvoke(kind, c, archive) ==
    /\ VolIdle
    /\ vop' = [pc |-> "stop", kind |-> kind, target |-> c,
               vols |-> volumeNames(ContainerMounts(c)), stopped |-> <<>>,
               cancelled |-> FALSE, rest |-> archive, archive |-> archive, cleared |-> {},
               err |-> FALSE, out |-> <<>>,
               before |-> [x \in ContainerIDs |-> rt[x].state], fs0 |-> fs]
    /\ last' = [op |-> kind]
    /\ UNCHANGED <<rt, evq, containers, scheduler, store, clock, fs, dmn, ntf, hnd>>

\* the context of the invocation is cancelled
CtxCancel ==
    /\ vop.pc \in {"stop", "walk", "defer"}
    /\ ~vop.cancelled
    /\ vop' = [vop EXCEPT !.cancelled = TRUE]
    /\ last' = [op |-> "cancel"]
    /\ UNCHANGED <<rt, evq, containers, scheduler, store, clock, fs, dmn, ntf, hnd>>

\* one round of "for _, volumeName := range volumeNames": the containers that
\* use the volume are listed and stopped.  The listing fails when listFail or
\* when the context is cancelled; a failing StopContainer ends the invocation
\* after restartContainers.
VolStopNext(listFail, stopFail) ==
    /\ vop.pc = "stop"
    /\ vop.vols /= <<>>
    /\ LET more == IF Len(vop.vols) > 1 THEN "stop" ELSE "walk"
           r == stopContainers(rt, vop.stopped, GetContainersUsingVolume(Head(vop.vols)), stopFail)
       IN  IF listFail \/ vop.cancelled
           THEN /\ vop' = [vop EXCEPT !.vols = Tail(@), !.pc = more]
                /\ rt' = rt
           ELSE IF r.err
           THEN /\ rt' = restartContainers(r.rt, r.stopped, vop.cancelled)
                /\ vop' = [vop EXCEPT !.stopped = r.stopped, !.err = TRUE, !.pc = "done"]
           ELSE /\ rt' = r.rt
                /\ vop' = [vop EXCEPT !.vols = Tail(@), !.stopped = r.stopped, !.pc = more]
    /\ last' = [op |-> "stop"]
    /\ UNCHANGED <<evq, containers, scheduler, store, clock, fs, dmn, ntf, hnd>>

\* the tar walk of Backup: it ends with ctx.Err() under a cancelled context,
\* with an error when reading the volume fails, and with the archive otherwise
VolBackupWalk(walkFail) ==
    /\ vop.pc = "walk" /\ vop.kind = "backup"
    /\ vop' = [vop EXCEPT !.pc = "defer",
                          !.err = vop.cancelled \/ walkFail,
                          !.out = IF vop.cancelled \/ walkFail THEN <<>>
                                  ELSE tarOfMounts(fs, ContainerMounts(vop.target))]
    /\ last' = [op |-> "walk"]
    /\ UNCHANGED <<rt, evq, containers, scheduler, store, clock, fs, dmn, ntf, hnd>>

\* one round of the loop of Restore: the next header is read (readFail: the
\* read fails) and applied; io.EOF ends the loop
VolRestoreEntry(readFail) ==
    /\ vop.pc = "walk" /\ vop.kind = "restore"
    /\ IF vop.rest = <<>>
       THEN /\ vop' = [vop EXCEPT !.pc = "defer"]
            /\ fs' = fs
       ELSE IF readFail \/ vop.cancelled
       THEN /\ vop' = [vop EXCEPT !.pc = "defer", !.err = TRUE]
            /\ fs' = fs
       ELSE LET r == restoreEntry(fs, vop.cleared,
                                  volumePaths(ContainerMounts(vop.target)), Head(vop.rest))
            IN  /\ fs' = r.fs
                /\ vop' = [vop EXCEPT !.rest = Tail(@), !.cleared = r.cleared, !.err = r.err,
                                      !.pc = IF r.err THEN "defer" ELSE "walk"]
    /\ last' = [op |-> "entry"]
    /\ UNCHANGED <<rt, evq, containers, scheduler, store, clock, dmn, ntf, hnd>>

\* the deferred restartContainers runs and the invocation returns
VolReturn ==
    /\ vop.pc = "defer"
    /\ rt' = restartContainers(rt, vop.stopped, vop.cancelled)
    /\ vop' = [vop EXCEPT !.pc = "done"]
    /\ last' = [op |-> "return"]
    /\ UNCHANGED <<evq, containers, scheduler, store, clock, fs, dmn, ntf, hnd>>

NextVolume ==
    \/ \E c \in ContainerIDs : VolRuntimeToggle(c)
    \/ \E c \in ContainerIDs : VolInvoke("backup", c, <<>>)
    \/ \E c \in ContainerIDs : \E archive \in Archives : VolInvoke("restore", c, archive)
    \/ CtxCancel
    \/ \E listFail \in BOOLEAN : \E stopFail \in ContainerIDs \cup {""} : VolStopNext(listFail, stopFail)
    \/ \E walkFail \in BOOLEAN : VolBackupWalk(walkFail)
    \/ \E readFail \in BOOLEAN : VolRestoreEntry(readFail)
    \/ VolReturn

SpecVolume == InitVolume /\ [][NextVolume]_vars

(***************************************************************************)
(* SpecDaemon: cmd/docker-backup/daemon.go, executions and shutdown        *)
(***************************************************************************)
InitDaemon ==
    /\ rt = [c \in ContainerIDs |-> [state |-> "running", labels |-> BackupLabels(c)]]
    /\ evq = <<>>
    /\ containers = syncContainers([containers |-> <<>>, scheduler |-> NewScheduler], <<"c1", "c2">>).containers
    /\ scheduler = syncContainers([containers |-> <<>>, scheduler |-> NewScheduler], <<"c1", "c2">>).scheduler
    /\ store = EmptyStore
    /\ clock = 0
    /\ fs = InitFs
    /\ vop = IdleOp
    /\ dmn = DaemonServing
    /\ ntf = NoTasks
    /\ hnd = HandlersIdle
    /\ last = [op |-> "init"]

\* an execution in flight: who started it, the context handed to runBackup
\* ("background": context.Background() of Scheduler.AddJob; "request": the
\* context of the HTTP request), the run in progress and the configs still
\* to run
Exec(origin, ctx, containerID, cfg, backups) ==
    [origin |-> origin, ctx |-> ctx, gone |-> FALSE, containerID |-> containerID, cfg |-> cfg,
     key |-> makeJobKey(containerID, Head(backups).Name), backup |-> Head(backups),
     rest |-> Tail(backups)]

FreeExec == CHOOSE i \in (1..MaxExecs) \ DOMAIN dmn.execs : \A j \in (1..MaxExecs) \ DOMAIN dmn.execs : i <= j

StartExec(e) ==
    /\ Cardinality(DOMAIN dmn.execs) < MaxExecs
    /\ dmn' = [dmn EXCEPT !.execs = @ @@ (FreeExec :> e)]
    /\ last' = [op |-> "exec", origin |-> e.origin, key |-> e.key]

\* whether the context an execution runs under is cancelled: never for
\* context.Background(), with the client's connection for a request
ExecCancelled(e) == e.ctx = "request" /\ e.gone

\* the cron entry of a job fires: cron starts the wrapped job of AddJob in a
\* goroutine of its own, whether or not an earlier firing still runs
DCronFire(key) ==
    /\ dmn.pc /= "exited"
    /\ dmn.cron = "running"
    /\ key \in DOMAIN scheduler.jobs
    /\ LET job == scheduler.entries[scheduler.jobs[key]].job
       IN  StartExec(Exec("cron", "background", job.containerID, job.cfg, <<job.backup>>))
    /\ UNCHANGED <<rt, evq, containers, scheduler, store, clock, volVars, ntf, hnd>>

\* POST /backup/run/{container_name} arrives: TriggerBackup starts on the
\* goroutine of the request with r.Context()
DRpcTrigger(containerName) ==
    /\ dmn.pc /= "exited"
    /\ dmn.api = "open"
    /\ LET f == findContainerConfig(containerName, TRUE)
       IN  /\ ~f.err /\ f.cfg.Enabled
           /\ StartExec(Exec("rpc", "request", f.id, f.cfg, f.cfg.Backups))
    /\ UNCHANGED <<rt, evq, containers, scheduler, store, clock, volVars, ntf, hnd>>

\* the dashboard's trigger for one config of a container
DDashTrigger(containerName, configName) ==
    /\ dmn.pc /= "exited"
    /\ dmn.dash = "open"
    /\ LET f == findContainerConfig(containerName, TRUE)
       IN  /\ ~f.err /\ f.cfg.Enabled
           /\ findBackupConfig(f.cfg, configName) /= <<>>
           /\ StartExec(Exec("dashboard", "request", f.id, f.cfg, findBackupConfig(f.cfg, configName)))
    /\ UNCHANGED <<rt, evq, containers, scheduler, store, clock, volVars, ntf, hnd>>

\* the client of a request in flight goes away: the request context is cancelled
DClientGone(id) ==
    /\ id \in DOMAIN dmn.execs
    /\ dmn.execs[id].ctx = "request" /\ ~dmn.execs[id].gone
    /\ dmn' = [dmn EXCEPT !.execs[id].gone = TRUE]
    /\ last' = [op |-> "gone"]
    /\ UNCHANGED <<rt, evq, containers, scheduler, store, clock, volVars, ntf, hnd>>

\* the run in progress of an execution returns (under a cancelled context its
\* GetContainer call fails); TriggerBackup goes on with the next config
DRunEnd(id) ==
    /\ id \in DOMAIN dmn.execs
    /\ LET e == dmn.execs[id]
       IN  /\ IF ExecCancelled(e) THEN store' = store
              ELSE \E r \in runBackup(store, e.containerID, e.cfg, e.backup, clock, FALSE) :
                     store' = r.store
           /\ dmn' = [dmn EXCEPT !.execs =
                        IF e.rest = <<>> THEN Without(@, id)
                        ELSE [@ EXCEPT ![id] = [e EXCEPT !.key = makeJobKey(e.containerID, Head(e.rest).Name),
                                                         !.backup = Head(e.rest),
                                                         !.rest = Tail(e.rest)]]]
           /\ last' = [op |-> "runend", key |-> e.key]
    /\ UNCHANGED <<rt, evq, containers, scheduler, clock, volVars, ntf, hnd>>

\* runDaemon receives SIGINT / SIGTERM and calls cancel()
DSignal ==
    /\ dmn.pc = "serving"
    /\ dmn' = [dmn EXCEPT !.pc = "cancelled", !.ctxCancelled = TRUE]
    /\ last' = [op |-> "signal"]
    /\ UNCHANGED <<rt, evq, containers, scheduler, store, clock, volVars, ntf, hnd>>

\* sched.Stop(): cron fires no more; the context it returns (done when the
\* running jobs have ended) is dropped
DSchedStop ==
    /\ dmn.pc = "cancelled"
    /\ dmn' = [dmn EXCEPT !.pc = "schedStopped", !.cron = "stopped"]
    /\ last' = [op |-> "schedstop"]
    /\ UNCHANGED <<rt, evq, containers, scheduler, store, clock, volVars, ntf, hnd>>

\* apiServer.Shutdown(context.Background()) closes the listener ...
DApiShutdown ==
    /\ dmn.pc = "schedStopped" /\ dmn.api = "open"
    /\ dmn' = [dmn EXCEPT !.api = "draining"]
    /\ last' = [op |-> "apishutdown"]
    /\ UNCHANGED <<rt, evq, containers, scheduler, store, clock, volVars, ntf, hnd>>

\* ... and returns when no request is in flight
DApiDrained ==
    /\ dmn.api = "draining"
    /\ \A id \in DOMAIN dmn.execs : dmn.execs[id].origin /= "rpc"
    /\ dmn' = [dmn EXCEPT !.api = "closed", !.pc = "apiClosed"]
    /\ last' = [op |-> "apiclosed"]
    /\ UNCHANGED <<rt, evq, containers, scheduler, store, clock, volVars, ntf, hnd>>

\* dashboardServer.Shutdown(context.Background()), likewise
DDashShutdown ==
    /\ dmn.pc = "apiClosed" /\ dmn.dash = "open"
    /\ dmn' = [dmn EXCEPT !.dash = "draining"]
    /\ last' = [op |-> "dashshutdown"]
    /\ UNCHANGED <<rt, evq, containers, scheduler, store, clock, volVars, ntf, hnd>>

DDashDrained ==
    /\ dmn.dash = "draining"
    /\ \A id \in DOMAIN dmn.execs : dmn.execs[id].origin /= "dashboard"
    /\ dmn' = [dmn EXCEPT !.dash = "closed", !.pc = "dashClosed"]
    /\ last' = [op |-> "dashclosed"]
    /\ UNCHANGED <<rt, evq, containers, scheduler, store, clock, volVars, ntf, hnd>>

\* runDaemon returns and the process ends: the executions still in flight
\* end with it
DExit ==
    /\ dmn.pc = "dashClosed"
    /\ dmn' = [dmn EXCEPT !.pc = "exited", !.execs = <<>>,
                          !.killed = {dmn.execs[id].key : id \in DOMAIN dmn.execs}]
    /\ last' = [op |-> "exit"]
    /\ UNCHANGED <<rt, evq, containers, scheduler, store, clock, volVars, ntf, hnd>>

NextDaemon ==
    \/ \E key \in DOMAIN scheduler.jobs : DCronFire(key)
    \/ \E n \in {"web", "db1"} : DRpcTrigger(n)
    \/ \E n \in {"web", "db1"} : \E cn \in {"db", "zz"} : DDashTrigger(n, cn)
    \/ \E id \in 1..MaxExecs : DClientGone(id)
    \/ \E id \in 1..MaxExecs : DRunEnd(id)
    \/ DSignal
    \/ DSchedStop
    \/ DApiShutdown
    \/ DApiDrained
    \/ DDashShutdown
    \/ DDashDrained
    \/ DExit

SpecDaemon == InitDaemon /\ [][NextDaemon]_vars

(***************************************************************************)
(* SpecKey: generateBackupKey applied to pairs of instants                 *)
(***************************************************************************)
\* instants around midnight UTC and around the end of summer time
KeyInstants == {0, 1, 2, 3600, 3601, 3602, 7201}

InitKey ==
    /\ rt = IdleRuntime
    /\ evq = <<>>
    /\ containers = <<>>
    /\ scheduler = NewScheduler
    /\ store = EmptyStore
    /\ clock = 0
    /\ fs = InitFs
    /\ vop = IdleOp
    /\ dmn = DaemonServing
    /\ ntf = NoTasks
    /\ hnd = HandlersIdle
    /\ last = [op |-> "init"]

\* two runs of the same container and config form their keys at the
\* instants t1 and t2, in a daemon whose local zone is zone
KeyPair(zone, containerName, configName, t1, t2) ==
    /\ last' = [op |-> "keys", zone |-> zone, t1 |-> t1, t2 |-> t2,
                k1 |-> generateBackupKey(containerName, configName, FileExtension("volume"),
                                         WallClock(zone, t1)),
                k2 |-> generateBackupKey(containerName, configName, FileExtension("volume"),
                                         WallClock(zone, t2))]
    /\ UNCHANGED <<rt, evq, containers, scheduler, store, clock, volVars, dmn, ntf, hnd>>

NextKey ==
    \E zone \in Zones : \E n \in {"web", "db1"} : \E cn \in {"db", "files"} :
        \E t1, t2 \in KeyInstants : KeyPair(zone, n, cn, t1, t2)

SpecKey == InitKey /\ [][NextKey]_vars

(***************************************************************************)
(* SpecRetention: retention.Manager.Enforce applied to sinks of any content *)
(***************************************************************************)
\* the greatest keepCount and the greatest last-modified time tried
MaxKeep == 2

MaxMtime == 1

\* keys of two configs of one container, of a config whose name extends
\* another's, and of another container
RetentionKeys ==
    {"web/db/2024-10-25/030000.tar.zst", "web/db/2024-10-26/030000.tar.zst",
     "web/db/2024-10-27/030000.tar.zst", "web/db2/2024-10-26/030000.tar.zst",
     "db1/db/2024-10-26/030000.tar.zst"}

RetentionPrefixes == {"web/db/", "web/db2/", "db1/db/"}

InitRetention ==
    /\ rt = IdleRuntime
    /\ evq = <<>>
    /\ containers = <<>>
    /\ scheduler = NewScheduler
    /\ store = EmptyStore
    /\ clock = 0
    /\ fs = InitFs
    /\ vop = IdleOp
    /\ dmn = DaemonServing
    /\ ntf = NoTasks
    /\ hnd = HandlersIdle
    /\ last = [op |-> "init"]

\* an artifact reaches a sink (Storage.Store of some run) with a
\* last-modified time
RetPut(pool, key, mtime) ==
    /\ key \notin DOMAIN store[pool]
    /\ store' = [store EXCEPT ![pool] = Store(@, pool, key, [mtime |-> mtime, data |-> <<key>>], "ok")]
    /\ last' = [op |-> "put"]
    /\ UNCHANGED <<rt, evq, containers, scheduler, clock, volVars, dmn, ntf, hnd>>

\* Enforce(ctx, storageName, prefix, keepCount) with the outcome of List, the
\* order the sort leaves and the keys whose Delete fails
RetEnforce(storageName, prefix, keepCount, listOk) ==
    LET pool == ResolvePool(storageName)
        listed == List(store[pool], prefix)
    IN  \E order \in SortedOrders(store[pool], listed) : \E delFail \in SUBSET listed :
            LET e == Enforce(store[pool], storageName, prefix, keepCount, listOk, order, delFail)
            IN  /\ listOk \/ delFail = {}
                /\ store' = [store EXCEPT ![pool] = e.st]
                /\ last' = [op |-> "enforce", pool |-> pool, prefix |-> prefix,
                            keep |-> keepCount, listOk |-> listOk, delFail |-> delFail,
                            attempted |-> IF listOk
                                          THEN {order[i] : i \in (keepCount + 1)..Len(order)}
                                          ELSE {},
                            before |-> store, deleted |-> e.deleted, err |-> e.err]
                /\ UNCHANGED <<rt, evq, containers, scheduler, clock, volVars, dmn, ntf, hnd>>

NextRetention ==
    \/ \E key \in RetentionKeys : \E mtime \in 0..MaxMtime : RetPut(DefaultPool, key, mtime)
    \/ \E storageName \in {"", "s3"} : \E prefix \in RetentionPrefixes :
           \E keepCount \in 0..MaxKeep : \E listOk \in BOOLEAN :
               RetEnforce(storageName, prefix, keepCount, listOk)

SpecRetention == InitRetention /\ [][NextRetention]_vars

(***************************************************************************)
(* SpecWatch: the watcher goroutines and the runtime's event stream        *)
(*   dmn.watcher: where watchEvents stands: "outer" (before WatchEvents),  *)
(*     "inner" (at the inner select), "sleep" (in time.Sleep), "returned"  *)
(*   dmn.stream: the subscription: "none", "open", "failed" (its error is  *)
(*     in errChan), "closed" (the error was taken, errChan is closed)      *)
(*   evq: the events of the subscription not yet received                  *)
(***************************************************************************)
WatchLabels(c) == IF c = "c1" THEN LabelsDb3 ELSE LabelsTwo

InitWatch ==
    /\ rt = [c \in ContainerIDs |-> [state |-> "stopped", labels |-> WatchLabels(c)]]
    /\ evq = <<>>
    /\ containers = <<>>
    /\ scheduler = NewScheduler
    /\ store = EmptyStore
    /\ clock = 0
    /\ fs = InitFs
    /\ vop = IdleOp
    /\ dmn = DaemonServing
    /\ ntf = NoTasks
    /\ hnd = HandlersIdle
    /\ last = [op |-> "init"]

\* the runtime emits an event: it reaches the subscription if one is open
Emit(e) ==
    IF dmn.stream = "open" THEN Len(evq) < MaxQueue /\ evq' = Append(evq, e)
    ELSE evq' = evq

WDockerStart(c) ==
    /\ rt[c].state /= "running"
    /\ rt' = [rt EXCEPT ![c].state = "running"]
    /\ Emit([Action |-> "start", ID |-> c])
    /\ last' = [op |-> "docker"]
    /\ UNCHANGED <<containers, scheduler, store, clock, volVars, dmn, ntf, hnd>>

WDockerStop(c, action) ==
    /\ rt[c].state = "running"
    /\ rt' = [rt EXCEPT ![c].state = "stopped"]
    /\ Emit([Action |-> action, ID |-> c])
    /\ last' = [op |-> "docker"]
    /\ UNCHANGED <<containers, scheduler, store, clock, volVars, dmn, ntf, hnd>>

\* the event stream breaks (the runtime restarts, the connection drops): the
\* subscription puts its error into errChan and ends
WStreamError ==
    /\ dmn.stream = "open"
    /\ dmn' = [dmn EXCEPT !.stream = "failed"]
    /\ last' = [op |-> "stream_error"]
    /\ UNCHANGED <<rt, evq, containers, scheduler, store, clock, volVars, ntf, hnd>>

\* watchEvents, outer loop: the context is live, WatchEvents subscribes
WSubscribe ==
    /\ dmn.watcher = "outer" /\ ~dmn.ctxCancelled
    /\ dmn' = [dmn EXCEPT !.watcher = "inner", !.stream = "open"]
    /\ evq' = <<>>
    /\ last' = [op |-> "subscribe"]
    /\ UNCHANGED <<rt, containers, scheduler, store, clock, volVars, ntf, hnd>>

\* inner select, case event := <-eventsChan: the handler runs
WHandleEvent ==
    /\ dmn.watcher = "inner"
    /\ evq /= <<>>
    /\ LET e == Head(evq)
       IN  /\ SetManager(IF e.Action = "start" THEN addContainer(Manager, e.ID)
                         ELSE removeContainer(Manager, e.ID))
           /\ last' = [op |-> e.Action, cid |-> e.ID]
    /\ evq' = Tail(evq)
    /\ UNCHANGED <<rt, store, clock, volVars, dmn, ntf, hnd>>

\* inner select, case err := <-errChan with the error of the subscription:
\* the warning is logged and the goroutine sleeps
WRecvErr ==
    /\ dmn.watcher = "inner" /\ dmn.stream = "failed"
    /\ dmn' = [dmn EXCEPT !.watcher = "sleep", !.stream = "closed"]
    /\ last' = [op |-> "recv_err"]
    /\ UNCHANGED <<rt, evq, containers, scheduler, store, clock, volVars, ntf, hnd>>

\* the sleep ends; the break that follows leaves the select statement only,
\* so the inner for loop goes on with the same channels
WWake ==
    /\ dmn.watcher = "sleep"
    /\ dmn' = [dmn EXCEPT !.watcher = "inner"]
    /\ last' = [op |-> "wake"]
    /\ UNCHANGED <<rt, evq, containers, scheduler, store, clock, volVars, ntf, hnd>>

\* inner select, case err := <-errChan on the closed channel: err is nil,
\* break leaves the select statement, the inner loop goes round again
WRecvClosed ==
    /\ dmn.watcher = "inner" /\ dmn.stream = "closed"
    /\ last' = [op |-> "recv_nil"]
    /\ UNCHANGED <<rt, evq, containers, scheduler, store, clock, volVars, dmn, ntf, hnd>>

\* pollContainers: the initial sync and every tick hand a sync event to the
\* handler
WPoll(listed) ==
    /\ ~dmn.ctxCancelled
    /\ SetManager(syncContainers(Manager, listed))
    /\ last' = [op |-> "sync", seen |-> Range(listed)]
    /\ UNCHANGED <<rt, evq, store, clock, volVars, dmn, ntf, hnd>>

\* runDaemon cancels the context on a signal
WCancel ==
    /\ ~dmn.ctxCancelled
    /\ dmn' = [dmn EXCEPT !.ctxCancelled = TRUE, !.pc = "cancelled"]
    /\ last' = [op |-> "signal"]
    /\ UNCHANGED <<rt, evq, containers, scheduler, store, clock, volVars, ntf, hnd>>

\* case <-ctx.Done() of either select: watchEvents returns
WReturn ==
    /\ dmn.ctxCancelled /\ dmn.watcher \in {"outer", "inner"}
    /\ dmn' = [dmn EXCEPT !.watcher = "returned"]
    /\ last' = [op |-> "watcher_returned"]
    /\ UNCHANGED <<rt, evq, containers, scheduler, store, clock, volVars, ntf, hnd>>

NextWatch ==
    \/ \E c \in ContainerIDs : WDockerStart(c)
    \/ \E c \in ContainerIDs : \E action \in {"stop", "die"} : WDockerStop(c, action)
    \/ WStreamError
    \/ WSubscribe
    \/ WHandleEvent
    \/ WRecvErr
    \/ WWake
    \/ WRecvClosed
    \/ \E listed \in ListOrders(Running) : WPoll(listed)
    \/ WCancel
    \/ WReturn

SpecWatch == InitWatch /\ [][NextWatch]_vars

\* the Go scheduler lets the goroutine watchEvents run whenever it can, and a
\* select with several ready cases picks one of them at random, so a case of
\* the error channel or of ctx.Done() that stays ready is taken in the end.
\* (Nothing is assumed about how fast the handler takes events: the stream
\* and the position of the watcher do not depend on it.)
WatcherFair ==
    /\ WF_vars(WSubscribe) /\ WF_vars(WRecvErr)
    /\ WF_vars(WWake) /\ WF_vars(WRecvClosed) /\ WF_vars(WReturn)

SpecWatchFair == SpecWatch /\ WatcherFair

(***************************************************************************)
(* SpecRpc: the restore, delete and list requests of the API server        *)
(*   (the producer's work on the volumes is SpecVolume's subject; here     *)
(*   BackupType.Restore is called and succeeds or fails)                   *)
(***************************************************************************)
\* strings.Split(s, "/"), from position i on with the segment begun at b
RECURSIVE splitFrom(_, _, _)
splitFrom(s, b, i) ==
    IF i > Len(s) THEN <<SubSeq(s, b, Len(s))>>
    ELSE IF SubSeq(s, i, i) = "/" THEN <<SubSeq(s, b, i - 1)>> \o splitFrom(s, i + 1, i + 1)
    ELSE splitFrom(s, b, i + 1)

Split(s) == splitFrom(s, 1, 1)

\* a lookup that compares the segment with the backup type of each config
keyPathMatchesType(cfg, configPath) ==
    SelectSeq(cfg.Backups, LAMBDA b : b.BackupType = configPath)

\* the loop over cfg.Backups of RestoreBackup and getStorageForBackupKey: the
\* configs whose name (or, without a name, type) is the segment
keyPathMatches(cfg, configPath) ==
    SelectSeq(cfg.Backups,
              LAMBDA b : (IF b.Name /= "" THEN b.Name ELSE b.BackupType) = configPath)

\* getStorageForBackupKey: [err, pool]
getStorageForBackupKey(cfg, backupKey) ==
    LET parts == Split(backupKey)
        first == [err |-> ~GetForContainer(cfg.Backups[1].Storage),
                  pool |-> ResolvePool(cfg.Backups[1].Storage)]
        none == [err |-> TRUE, pool |-> ""]
    IN  IF Len(parts) < 2 THEN (IF Len(cfg.Backups) > 0 THEN first ELSE none)
        ELSE LET m == keyPathMatches(cfg, parts[2])
             IN  IF m /= <<>> THEN [err |-> ~GetForContainer(m[1].Storage),
                                    pool |-> ResolvePool(m[1].Storage)]
                 ELSE IF Len(cfg.Backups) > 0 THEN first ELSE none

\* Storage.Get: the key must be there
Get(st, key) == key \in DOMAIN st

\* what can go wrong in a restore besides what the state decides
RestoreFaults == {"none", "inspect", "validate", "get", "restore"}

\* Manager.RestoreBackup: [err, stage, config, pool, producer, events,
\* before, restored]; config: the BackupConfig chosen; producer: the type
\* whose Validate and Restore are called; before: the events emitted when BackupType.Restore is
\* called; restored: the artifact handed to it
RestoreBackup(sts, containerName, backupKey, listOk, fault) ==
    LET f == findContainerConfig(containerName, listOk)
        parts == Split(backupKey)
        res(stage, b, pool, ev, n, data) ==
            [err |-> stage /= "restored", stage |-> stage, config |-> b, pool |-> pool,
             producer |-> IF b = <<>> THEN "" ELSE b[1].BackupType,
             events |-> ev, before |-> n, restored |-> data]
        fail(stage) == res(stage, <<>>, "", <<>>, 0, <<>>)
    IN  IF f.err THEN fail("find")
        ELSE IF Len(parts) < 2 THEN fail("key")
        ELSE LET m == keyPathMatches(f.cfg, parts[2])
             IN  IF m = <<>> /\ Len(f.cfg.Backups) = 0 THEN fail("noconfig")
                 ELSE LET backupCfg == IF m /= <<>> THEN m[1] ELSE f.cfg.Backups[1]
                          s == getStorageForBackupKey(f.cfg, backupKey)
                          providers == getNotifyProviders(f.cfg, backupCfg)
                          stop(stage) == res(stage, <<backupCfg>>, s.pool, <<>>, 0, <<>>)
                      IN  IF backupCfg.BackupType \notin RegisteredTypes THEN stop("type")
                          ELSE IF s.err THEN stop("storage")
                          ELSE IF fault = "inspect" \/ rt[f.id].state = "absent" THEN stop("inspect")
                          ELSE IF rt[f.id].state /= "running" THEN stop("not_running")
                          ELSE IF fault = "validate" THEN stop("validate")
                          ELSE IF fault = "get" \/ ~Get(sts[s.pool], backupKey) THEN stop("get")
                          ELSE IF fault = "restore"
                          THEN res("restore", <<backupCfg>>, s.pool,
                                   notify([Event("restore_failed", f.cfg, backupCfg, backupKey)
                                             EXCEPT !.ContainerName = containerName], providers),
                                   0, sts[s.pool][backupKey].data)
                          ELSE res("restored", <<backupCfg>>, s.pool,
                                   notify([Event("restore_completed", f.cfg, backupCfg, backupKey)
                                             EXCEPT !.ContainerName = containerName], providers),
                                   0, sts[s.pool][backupKey].data)

\* Manager.DeleteBackup: [err, stage, store]; delOk: Storage.Delete succeeds
DeleteBackup(sts, containerName, backupKey, listOk, delOk) ==
    LET f == findContainerConfig(containerName, listOk)
    IN  IF f.err THEN [err |-> TRUE, stage |-> "find", store |-> sts]
        ELSE LET s == getStorageForBackupKey(f.cfg, backupKey)
             IN  IF s.err THEN [err |-> TRUE, stage |-> "storage", store |-> sts]
                 ELSE IF ~delOk THEN [err |-> TRUE, stage |-> "delete", store |-> sts]
                 ELSE [err |-> FALSE, stage |-> "deleted",
                       store |-> [sts EXCEPT ![s.pool] = Delete(@, backupKey)]]

\* the pools ListBackups asks: each storage name of the plan once, when it
\* resolves
RECURSIVE listPools(_, _)
listPools(backups, seen) ==
    IF backups = <<>> THEN <<>>
    ELSE LET n == Head(backups).Storage
         IN  IF n \in seen THEN listPools(Tail(backups), seen)
             ELSE (IF GetForContainer(n) THEN <<ResolvePool(n)>> ELSE <<>>)
                  \o listPools(Tail(backups), seen \cup {n})

\* Manager.ListBackups: [err, backups]; listFail: the pools whose List fails
ListBackups(sts, containerName, listOk, listFail) ==
    LET f == findContainerConfig(containerName, listOk)
        pools == IF f.err THEN <<>> ELSE listPools(f.cfg.Backups, {})
        asked == SelectSeq(pools, LAMBDA p : p \notin listFail)
    IN  IF f.err THEN [err |-> TRUE, backups |-> <<>>]
        ELSE [err |-> FALSE,
              backups |-> [i \in DOMAIN asked |-> List(sts[asked[i]], containerName \o "/")]]

\* the text of the error a Manager operation returns, by the step it failed at
ErrorText(stage) ==
    CASE stage = "find" -> "container not found"
      [] stage = "key" -> "invalid backup key format"
      [] stage = "noconfig" -> "no backup configuration found"
      [] stage = "type" -> "unknown backup type"
      [] stage = "storage" -> "failed to get storage"
      [] stage = "inspect" -> "failed to get container info"
      [] stage = "not_running" -> "container is not running"
      [] stage = "validate" -> "container validation failed"
      [] stage = "get" -> "failed to get backup"
      [] stage = "restore" -> "restore failed"
      [] stage = "delete" -> "failed to delete backup"
      [] OTHER -> ""

\* the responses of handleBackupRestore, handleBackupDelete and
\* handleBackupList: the path lacks an argument, the operation failed, or it
\* succeeded
Respond(missing, err, stage) ==
    IF missing THEN [status |-> 400, success |-> FALSE, error |-> "container name and backup key are required"]
    ELSE IF err THEN [status |-> 500, success |-> FALSE, error |-> ErrorText(stage)]
    ELSE [status |-> 200, success |-> TRUE, error |-> ""]

\* web as in SpecBackup; db1: db (postgres, default pool, the container's
\* providers) and files (volume, s3, its own provider)
RpcLabels(c) == IF c = "c1" THEN LabelsRun ELSE LabelsTwo

RpcLocal ==
    ("web/db/2024-10-26/030000.tar.zst" :> [mtime |-> 0, data |-> <<"c1", "db", "v1">>])
    @@ ("db1/db/2024-10-26/030000.sql.zst" :> [mtime |-> 0, data |-> <<"c2", "db", "v1">>])
    @@ ("db1/postgres/2024-10-20/030000.sql.zst" :> [mtime |-> 0 - 9, data |-> <<"c2", "db", "v2">>])

RpcS3 ==
    ("web/files/2024-10-26/040000.tar.zst" :> [mtime |-> 0, data |-> <<"c1", "files", "v1">>])
    @@ ("db1/files/2024-10-26/040000.tar.zst" :> [mtime |-> 0, data |-> <<"c2", "files", "v1">>])

\* the keys a request may name: the stored ones, one that is absent, one whose
\* second segment names no config, one without a second segment, none
RpcKeys ==
    DOMAIN RpcLocal \cup DOMAIN RpcS3
    \cup {"web/db/2024-10-27/030000.tar.zst", "web/zz/2024-10-26/030000.tar.zst", "nokey", ""}

\* the keys a delete request may name
RpcDeleteKeys ==
    {"web/db/2024-10-26/030000.tar.zst", "web/db/2024-10-27/030000.tar.zst",
     "web/zz/2024-10-26/030000.tar.zst", ""}

RpcNames == {"web", "db1", "ghost", ""}

InitRpc ==
    /\ rt = [c \in ContainerIDs |-> [state |-> "running", labels |-> RpcLabels(c)]]
    /\ evq = <<>>
    /\ containers = syncContainers([containers |-> <<>>, scheduler |-> NewScheduler], <<"c1", "c2">>).containers
    /\ scheduler = syncContainers([containers |-> <<>>, scheduler |-> NewScheduler], <<"c1", "c2">>).scheduler
    /\ store = [local |-> RpcLocal, s3 |-> RpcS3]
    /\ clock = 0
    /\ fs = InitFs
    /\ vop = IdleOp
    /\ dmn = DaemonServing
    /\ ntf = NoTasks
    /\ hnd = HandlersIdle
    /\ last = [op |-> "init"]

\* POST /backup/restore/{container_name}/{backup_key}
RpcRestore(containerName, backupKey) ==
    /\ \E listOk \in ListOutcomes(containerName) : \E fault \in RestoreFaults :
         \E r \in {RestoreBackup(store, containerName, backupKey, listOk, fault)} :
         LET missing == containerName = "" \/ backupKey = ""
         IN  /\ missing => (listOk /\ fault = "none")
             /\ (~missing /\ fault /= "none") => r.stage = fault
             /\ last' = IF missing
                        THEN [op |-> "restore", container |-> containerName, key |-> backupKey,
                              called |-> FALSE, response |-> Respond(TRUE, FALSE, "")]
                        ELSE [op |-> "restore", container |-> containerName, key |-> backupKey,
                              called |-> TRUE, result |-> r,
                              response |-> Respond(FALSE, r.err, r.stage)]
    /\ UNCHANGED <<rt, evq, containers, scheduler, store, clock, volVars, dmn, ntf, hnd>>

\* DELETE /backup/delete/{container_name}/{backup_key}
RpcDelete(containerName, backupKey) ==
    /\ \E listOk \in ListOutcomes(containerName) : \E delOk \in BOOLEAN :
         \E r \in {DeleteBackup(store, containerName, backupKey, listOk, delOk)} :
         LET missing == containerName = "" \/ backupKey = ""
         IN  /\ missing => (listOk /\ delOk)
             /\ (~missing /\ ~delOk) => r.stage = "delete"
             /\ store' = IF missing THEN store ELSE r.store
             /\ last' = IF missing
                        THEN [op |-> "delete", container |-> containerName, key |-> backupKey,
                              called |-> FALSE, response |-> Respond(TRUE, FALSE, "")]
                        ELSE [op |-> "delete", container |-> containerName, key |-> backupKey,
                              called |-> TRUE, result |-> [err |-> r.err, stage |-> r.stage],
                              held |-> \E p \in Pools : backupKey \in DOMAIN store[p],
                              response |-> Respond(FALSE, r.err, r.stage)]
    /\ UNCHANGED <<rt, evq, containers, scheduler, clock, volVars, dmn, ntf, hnd>>

\* GET /backup/list/{container_name}
RpcList(containerName) ==
    /\ \E listOk \in ListOutcomes(containerName) : \E listFail \in SUBSET Pools :
         LET missing == containerName = ""
             r == ListBackups(store, containerName, listOk, listFail)
         IN  /\ missing => (listOk /\ listFail = {})
             /\ last' = IF missing
                        THEN [op |-> "list", container |-> containerName,
                              called |-> FALSE, response |-> Respond(TRUE, FALSE, "")]
                        ELSE [op |-> "list", container |-> containerName,
                              called |-> TRUE, result |-> r,
                              response |-> Respond(FALSE, r.err, "find")]
    /\ UNCHANGED <<rt, evq, containers, scheduler, store, clock, volVars, dmn, ntf, hnd>>

NextRpc ==
    \/ RuntimeStop("c1")
    \/ RuntimeStart("c1")
    \/ \E n \in RpcNames : \E k \in RpcKeys : RpcRestore(n, k)
    \/ \E n \in RpcNames : \E k \in RpcDeleteKeys : RpcDelete(n, k)
    \/ \E n \in RpcNames : RpcList(n)

SpecRpc == InitRpc /\ [][NextRpc]_vars

(***************************************************************************)
(* SpecNotify: Manager.notify, notification.Manager.Notify and the sends   *)
(*   ntf.pc: where the emitting operation stands: "idle", "work" (before   *)
(*     its event), "retention" (runBackup after backup_completed),        *)
(*     "return" (about to return to its caller)                            *)
(*   ntf.tasks: the goroutines of notify, each with the event, the names,  *)
(*     the deadline of its context and one send per resolved notifier      *)
(*   ntf.waits: the task the operation's goroutine is joined on (0: none)  *)
(*   ntf.now: seconds on the clock the deadlines are measured on           *)
(*   ntf.ctx: the ctx runBackup or RestoreBackup was called with: "live"   *)
(*     or "cancelled"                                                      *)
(***************************************************************************)
\* context.WithTimeout(context.Background(), 30*time.Second)
NotifyTimeout == 30

\* http.Client{Timeout: 10 * time.Second} of the notifiers
ClientTimeout == 10

\* the clock moves in steps of the shorter timeout, MaxTicks times at most
TickStep == ClientTimeout

MaxTicks == 3

\* the notify goroutines of one behaviour
MaxTasks == 1

\* the notifiers AddNotifier registered, and the lists of names a plan or a
\* config may carry
Registered == {"slack", "mail"}

NotifyLists == {<<>>, <<"ghost", "slack", "mail">>, <<"mail", "mail">>}

\* the operations that emit, and the event each ends with
NotifyOps == {"runBackup", "RestoreBackup"}

EndEvent(op, ok) ==
    IF op = "runBackup"
    THEN (IF ok THEN "backup_completed" ELSE "backup_failed")
    ELSE (IF ok THEN "restore_completed" ELSE "restore_failed")

Later(a, b) == IF a >= b THEN a ELSE b

Sooner(a, b) == IF a <= b THEN a ELSE b

\* a variant of notifiersFor that gives up at the first name that is not
\* registered
notifiersUntilUnknown(providers) ==
    {providers[i] : i \in {j \in DOMAIN providers :
                             \A k \in 1..j : providers[k] \in Registered}}

\* Manager.Notify, the loop over providers: the map name -> notifier of the
\* names that are registered (a name given twice is one key of the map)
notifiersFor(providers) ==
    {providers[i] : i \in {j \in DOMAIN providers : providers[j] \in Registered}}

\* a variant of notifyGo that calls Notify inline: the caller is joined on it
notifyInline(n, event, providers) ==
    IF Len(providers) > 0
    THEN [n EXCEPT !.tasks = Append(@, [event |-> event, providers |-> providers,
                                        deadline |-> n.now + NotifyTimeout,
                                        parent |-> "background",
                                        pc |-> "spawned", sends |-> <<>>]),
                   !.waits = Len(n.tasks) + 1]
    ELSE n

\* a variant of notifyGo that derives the context of the sends from the ctx
\* of the operation
notifyFromJobCtx(n, event, providers) ==
    IF Len(providers) > 0
    THEN [n EXCEPT !.tasks = Append(@, [event |-> event, providers |-> providers,
                                        deadline |-> n.now + NotifyTimeout,
                                        parent |-> "job",
                                        pc |-> "spawned", sends |-> <<>>])]
    ELSE n

\* Manager.notify, the goroutine: with a non-empty list (m.notifyMgr is never nil in the
\* daemon) a context with the deadline, made from context.Background() (the
\* ctx parameter is not used), and a goroutine; the caller goes on
notifyGo(n, event, providers) ==
    IF Len(providers) > 0
    THEN [n EXCEPT !.tasks = Append(@, [event |-> event, providers |-> providers,
                                        deadline |-> n.now + NotifyTimeout,
                                        parent |-> "background",
                                        pc |-> "spawned", sends |-> <<>>])]
    ELSE n

\* the context of a task is done before its deadline: only when it was made
\* from a context that has been cancelled
CtxCancelled(n, task) == task.parent = "job" /\ n.ctx = "cancelled"

\* the operation's goroutine is not joined on a task that still runs
Unblocked(n) == IF n.waits = 0 THEN TRUE ELSE n.tasks[n.waits].pc = "done"

\* the moment a send ends at the latest: the context's deadline or the
\* client's timeout, whichever comes first
SendLimit(task, send) == Sooner(task.deadline, send.started + ClientTimeout)

Sending(n) ==
    {<<i, name>> \in (DOMAIN n.tasks) \X Registered :
        /\ n.tasks[i].pc = "sending"
        /\ name \in DOMAIN n.tasks[i].sends
        /\ n.tasks[i].sends[name].state = "sending"}

InitNotify ==
    /\ rt = IdleRuntime
    /\ evq = <<>>
    /\ containers = <<>>
    /\ scheduler = NewScheduler
    /\ store = EmptyStore
    /\ clock = 0
    /\ fs = InitFs
    /\ vop = IdleOp
    /\ dmn = DaemonServing
    /\ ntf = NoTasks
    /\ hnd = HandlersIdle
    /\ last = [op |-> "init"]

\* runBackup or RestoreBackup is entered for a config with its own list of
\* names in a plan with the container's list: getNotifyProviders chooses
NOpBegin(op, container, own) ==
    /\ ntf.pc = "idle"
    /\ Len(ntf.tasks) < MaxTasks
    /\ ntf' = [ntf EXCEPT !.pc = "work", !.op = op, !.ctx = "live",
                          !.container = container, !.own = own,
                          !.providers = getNotifyProviders([Notify |-> container],
                                                           [Notify |-> own])]
    /\ last' = [op |-> "OpBegin", name |-> op]
    /\ UNCHANGED <<rt, evq, containers, scheduler, store, clock, volVars, dmn, hnd>>

\* the operation emits its one event: backup_failed and return, or
\* backup_completed and retention; restore_failed or restore_completed and return
NOpEmit(ok) ==
    /\ ntf.pc = "work"
    /\ ntf' = [notifyGo(ntf, EndEvent(ntf.op, ok), ntf.providers)
                  EXCEPT !.pc = IF ntf.op = "runBackup" /\ ok THEN "retention" ELSE "return"]
    /\ last' = [op |-> "OpEmit", name |-> ntf.op, event |-> EndEvent(ntf.op, ok)]
    /\ UNCHANGED <<rt, evq, containers, scheduler, store, clock, volVars, dmn, hnd>>

\* m.retention.Enforce of runBackup
NOpRetention ==
    /\ ntf.pc = "retention"
    /\ Unblocked(ntf)
    /\ ntf' = [ntf EXCEPT !.pc = "return"]
    /\ last' = [op |-> "OpRetention", name |-> ntf.op]
    /\ UNCHANGED <<rt, evq, containers, scheduler, store, clock, volVars, dmn, hnd>>

\* the operation returns to its caller
NOpReturn ==
    /\ ntf.pc = "return"
    /\ Unblocked(ntf)
    /\ ntf' = [ntf EXCEPT !.pc = "idle", !.waits = 0]
    /\ last' = [op |-> "OpReturn", name |-> ntf.op]
    /\ UNCHANGED <<rt, evq, containers, scheduler, store, clock, volVars, dmn, hnd>>

\* the goroutine of notify runs Notify: one goroutine per resolved notifier,
\* each calling Send once with the task's context
NTaskStart(i) ==
    /\ i \in DOMAIN ntf.tasks
    /\ ntf.tasks[i].pc = "spawned"
    /\ ntf' = [ntf EXCEPT !.tasks[i].pc = "sending",
                          !.tasks[i].sends =
                              [name \in notifiersFor(ntf.tasks[i].providers) |->
                                  [state |-> "sending", calls |-> 1,
                                   started |-> ntf.now]]]
    /\ last' = [op |-> "TaskStart", task |-> i]
    /\ UNCHANGED <<rt, evq, containers, scheduler, store, clock, volVars, dmn, hnd>>

\* Send returns nil (a 2xx answer) or an error (refused, or another status);
\* Notify logs the error and does nothing else with the notifier
NSendReturns(i, name, state) ==
    /\ <<i, name>> \in Sending(ntf)
    /\ ntf.now <= SendLimit(ntf.tasks[i], ntf.tasks[i].sends[name])
    /\ ~CtxCancelled(ntf, ntf.tasks[i])
    /\ ntf' = [ntf EXCEPT !.tasks[i].sends[name].state = state]
    /\ last' = [op |-> "SendReturns", task |-> i, notifier |-> name, state |-> state]
    /\ UNCHANGED <<rt, evq, containers, scheduler, store, clock, volVars, dmn, hnd>>

\* the notifier did not answer: client.Do returns when the context is done
\* (its deadline has come, or it was cancelled) or the client's timeout has come
NSendTimeout(i, name) ==
    /\ <<i, name>> \in Sending(ntf)
    /\ \/ ntf.now >= SendLimit(ntf.tasks[i], ntf.tasks[i].sends[name])
       \/ CtxCancelled(ntf, ntf.tasks[i])
    /\ ntf' = [ntf EXCEPT !.tasks[i].sends[name].state =
                              IF CtxCancelled(ntf, ntf.tasks[i]) THEN "cancelled" ELSE "timeout"]
    /\ last' = [op |-> "SendTimeout", task |-> i, notifier |-> name]
    /\ UNCHANGED <<rt, evq, containers, scheduler, store, clock, volVars, dmn, hnd>>

\* wg.Wait() returns when every send has returned; Notify returns, cancel()
NTaskDone(i) ==
    /\ i \in DOMAIN ntf.tasks
    /\ ntf.tasks[i].pc = "sending"
    /\ \A name \in DOMAIN ntf.tasks[i].sends : ntf.tasks[i].sends[name].state /= "sending"
    /\ ntf' = [ntf EXCEPT !.tasks[i].pc = "done"]
    /\ last' = [op |-> "TaskDone", task |-> i]
    /\ UNCHANGED <<rt, evq, containers, scheduler, store, clock, volVars, dmn, hnd>>

\* the ctx of the operation is cancelled while it runs: the client of the
\* request goes away, or runDaemon calls cancel()
NCancel ==
    /\ ntf.pc /= "idle"
    /\ ntf.ctx = "live"
    /\ ntf' = [ntf EXCEPT !.ctx = "cancelled"]
    /\ last' = [op |-> "Cancel", name |-> ntf.op]
    /\ UNCHANGED <<rt, evq, containers, scheduler, store, clock, volVars, dmn, hnd>>

\* time passes, but not past a moment at which a send has to return
NTick ==
    /\ ntf.now < MaxTicks * TickStep
    /\ \A p \in Sending(ntf) :
          ntf.now < SendLimit(ntf.tasks[p[1]], ntf.tasks[p[1]].sends[p[2]])
    /\ ntf' = [ntf EXCEPT !.now = @ + TickStep]
    /\ last' = [op |-> "Tick"]
    /\ UNCHANGED <<rt, evq, containers, scheduler, store, clock, volVars, dmn, hnd>>

NextNotify ==
    \/ \E op \in NotifyOps, container \in NotifyLists, own \in NotifyLists :
          NOpBegin(op, container, own)
    \/ \E ok \in BOOLEAN : NOpEmit(ok)
    \/ NOpRetention
    \/ NOpReturn
    \/ \E i \in 1..MaxTasks : NTaskStart(i)
    \/ \E i \in 1..MaxTasks, name \in Registered, state \in {"ok", "failed"} :
          NSendReturns(i, name, state)
    \/ \E i \in 1..MaxTasks, name \in Registered : NSendTimeout(i, name)
    \/ \E i \in 1..MaxTasks : NTaskDone(i)
    \/ NCancel
    \/ NTick

SpecNotify == InitNotify /\ [][NextNotify]_vars

(***************************************************************************)
(* SpecLocal: the local sink on its directory tree, and the s3 sink        *)
(*   fs holds the base path, the directories MkdirAll made and the files;  *)
(*   a key is the sequence of its path segments                            *)
(***************************************************************************)
\* LocalStorage.basePath, which Create has made
BasePath == <<"srv", "backups">>

\* the keys Store and Delete are given: artifacts of two configs, and keys
\* that name a directory, nothing, or a path above the base
LocalKeys ==
    {<<"web", "db", "d1", "f1">>, <<"web", "db", "d1", "f2">>,
     <<"web", "db", "d2", "f1">>, <<"web", "files", "d1", "f1">>}

OddKeys == {<<"web", "db">>, <<>>, <<"..", "x">>}

\* the entries directly inside a directory
Children(fsv, dir) == {p \in DOMAIN fsv : Len(p) = Len(dir) + 1 /\ SubSeq(p, 1, Len(dir)) = dir}

\* os.Remove(path): [fs, err]; err is "none", "notexist" or "notempty"
osRemove(fsv, path) ==
    IF path \notin DOMAIN fsv THEN [fs |-> fsv, err |-> "notexist"]
    ELSE IF Children(fsv, path) /= {} THEN [fs |-> fsv, err |-> "notempty"]
    ELSE [fs |-> Without(fsv, path), err |-> "none"]

\* a variant of pruneDirs that stops after the first directory
pruneOneDir(fsv, dir) ==
    IF dir = BasePath THEN fsv ELSE osRemove(fsv, dir).fs

\* the loop "for dir != l.basePath" of Delete: remove the directory and go
\* on with its parent until a removal fails
RECURSIVE pruneDirs(_, _)
pruneDirs(fsv, dir) ==
    IF dir = BasePath THEN fsv
    ELSE LET r == osRemove(fsv, dir)
         IN  IF r.err /= "none" \/ dir = <<>> THEN r.fs
             ELSE pruneDirs(r.fs, SubSeq(dir, 1, Len(dir) - 1))

\* filepath.Dir of a cleaned path
PathDir(path) == IF path = <<>> THEN <<>> ELSE SubSeq(path, 1, Len(path) - 1)

\* a variant of LocalDelete that reports a file that is not there
LocalDeleteStrict(fsv, key) ==
    LET fullPath == Join(BasePath, key)
        r == osRemove(fsv, fullPath)
    IN  IF r.err /= "none" THEN [fs |-> fsv, err |-> TRUE]
        ELSE [fs |-> pruneDirs(r.fs, PathDir(fullPath)), err |-> FALSE]

\* LocalStorage.Delete: [fs, err]
LocalDelete(fsv, key) ==
    LET fullPath == Join(BasePath, key)
        r == osRemove(fsv, fullPath)
    IN  IF r.err = "notexist" THEN [fs |-> fsv, err |-> FALSE]
        ELSE IF r.err /= "none" THEN [fs |-> fsv, err |-> TRUE]
        ELSE [fs |-> pruneDirs(r.fs, PathDir(fullPath)), err |-> FALSE]

\* LocalStorage.Store with its outcome: "ok", "create" (os.Create fails) or
\* "copy" (io.Copy fails and the file is removed): [fs, err]
LocalStore(fsv, key, data, outcome) ==
    LET fullPath == Join(BasePath, key)
        m == MkdirAll(fsv, <<>>, PathDir(fullPath))
    IN  IF m.err THEN [fs |-> fsv, err |-> TRUE]
        ELSE IF outcome = "create" \/ (fullPath \in DOMAIN m.fs /\ m.fs[fullPath].type = "dir")
        THEN [fs |-> m.fs, err |-> TRUE]
        ELSE IF outcome = "copy" THEN [fs |-> Without(m.fs, fullPath), err |-> TRUE]
        ELSE [fs |-> [p \in (DOMAIN m.fs) \cup {fullPath} |->
                         IF p = fullPath THEN File(data) ELSE m.fs[p]],
              err |-> FALSE]

\* LocalStorage.List without a prefix: the keys of the files below the base
LocalList(fsv) ==
    {SubSeq(p, Len(BasePath) + 1, Len(p)) :
        p \in {q \in DOMAIN fsv : /\ fsv[q].type = "file"
                                  /\ Len(q) > Len(BasePath)
                                  /\ SubSeq(q, 1, Len(BasePath)) = BasePath}}

InitLocal ==
    /\ rt = IdleRuntime
    /\ evq = <<>>
    /\ containers = <<>>
    /\ scheduler = NewScheduler
    /\ store = EmptyStore
    /\ clock = 0
    /\ fs = (<<"srv">> :> Dir) @@ (BasePath :> Dir)
    /\ vop = IdleOp
    /\ dmn = DaemonServing
    /\ ntf = NoTasks
    /\ hnd = HandlersIdle
    /\ last = [op |-> "init"]

\* the artifacts of the local sink: key -> content
LocalArtifacts(fsv) == [k \in LocalList(fsv) |-> fsv[Join(BasePath, k)].data]

\* the objects of the s3 sink: key -> content
S3Artifacts(st) == [k \in DOMAIN st |-> st[k].data]

\* the keys put into the s3 sink
S3Keys == {<<"web", "db", "d1", "f1">>, <<"web", "files", "d1", "f1">>}

SinkStore(key, data, outcome) ==
    /\ fs' = LocalStore(fs, key, data, outcome).fs
    /\ last' = [op |-> "Store", sink |-> "local", key |-> key, outcome |-> outcome,
                err |-> LocalStore(fs, key, data, outcome).err]
    /\ UNCHANGED <<rt, evq, containers, scheduler, store, clock, vop, dmn, ntf, hnd>>

SinkDelete(key) ==
    /\ fs' = LocalDelete(fs, key).fs
    /\ last' = [op |-> "Delete", sink |-> "local", key |-> key,
                err |-> LocalDelete(fs, key).err,
                was |-> Join(BasePath, key) \in DOMAIN fs,
                before |-> LocalArtifacts(fs),
                after |-> LocalArtifacts(LocalDelete(fs, key).fs),
                again |-> last.op = "Delete" /\ last.sink = "local" /\ last.key = key]
    /\ UNCHANGED <<rt, evq, containers, scheduler, store, clock, vop, dmn, ntf, hnd>>

\* S3Storage.Store: PutObject of the key
S3Store(key) ==
    /\ store' = [store EXCEPT !["s3"] = Store(@, "s3", key, [mtime |-> 0, data |-> "v1"], "ok")]
    /\ last' = [op |-> "Store", sink |-> "s3", key |-> key, outcome |-> "ok", err |-> FALSE]
    /\ UNCHANGED <<rt, evq, containers, scheduler, clock, volVars, dmn, ntf, hnd>>

\* S3Storage.Delete: DeleteObject of the key, which succeeds for a key that
\* is not there
S3Delete(key) ==
    /\ store' = [store EXCEPT !["s3"] = Delete(@, key)]
    /\ last' = [op |-> "Delete", sink |-> "s3", key |-> key, err |-> FALSE,
                was |-> key \in DOMAIN store["s3"],
                before |-> S3Artifacts(store["s3"]),
                after |-> S3Artifacts(Delete(store["s3"], key)),
                again |-> last.op = "Delete" /\ last.sink = "s3" /\ last.key = key]
    /\ UNCHANGED <<rt, evq, containers, scheduler, clock, volVars, dmn, ntf, hnd>>

NextLocal ==
    \/ \E key \in LocalKeys, data \in Contents, outcome \in {"ok", "create", "copy"} :
          SinkStore(key, data, outcome)
    \/ \E key \in LocalKeys \cup OddKeys : SinkDelete(key)
    \/ \E key \in S3Keys : S3Store(key)
    \/ \E key \in LocalKeys : S3Delete(key)

SpecLocal == InitLocal /\ [][NextLocal]_vars

(***************************************************************************)
(* SpecParse: ParseLabels on label maps, and the first scheduling of the   *)
(*   plan it returns (the start event of a container with these labels)    *)
(***************************************************************************)
\* the label keys of the maps tried, and the values each may carry
ParseKeys ==
    <<<<LabelPrefix, "enable">>, <<LabelPrefix, "notify">>,
      <<LabelPrefix, "db", "type">>, <<LabelPrefix, "db", "schedule">>,
      <<LabelPrefix, "db", "retention">>,
      <<LabelPrefix, "a", "type">>, <<LabelPrefix, "a", "schedule">>,
      <<LabelPrefix, "enable", "type">>, <<LabelPrefix, "enable", "schedule">>,
      <<LabelPrefix, "notify", "type">>>>

ParseValues(k) ==
    CASE k = <<LabelPrefix, "enable">> -> {"true", "yes", "false"}
      [] k = <<LabelPrefix, "notify">> -> {"slack"}
      [] k = <<LabelPrefix, "db", "type">> -> {"volume", " "}
      [] k = <<LabelPrefix, "db", "retention">> -> {"2", "0", "many"}
      [] k = <<LabelPrefix, "a", "type">> -> {"mysql"}
      [] k = <<LabelPrefix, "a", "schedule">> -> {"* * * * *"}
      [] k = <<LabelPrefix, "enable", "type">> -> {"foo", "volume"}
      [] k = <<LabelPrefix, "notify", "type">> -> {"foo"}
      [] OTHER -> {"0 3 * * *"}

\* every map that gives some of the first n keys one of their values
RECURSIVE LabelMapsUpTo(_)
LabelMapsUpTo(n) ==
    IF n = 0 THEN {<<>>}
    ELSE LET rest == LabelMapsUpTo(n - 1)
         IN  rest \cup {m @@ (ParseKeys[n] :> v) : m \in rest, v \in ParseValues(ParseKeys[n])}

LabelMaps == LabelMapsUpTo(Len(ParseKeys))

\* the first loop of parseNamedConfigs: config name -> property -> value
configGroups(labels) ==
    LET keys == {k \in DOMAIN labels : HasLabelPrefix(k) /\ Len(k) = 3 /\ k[2] \notin reservedProperties}
    IN  [n \in {k[2] : k \in keys} |->
            [p \in {k[3] : k \in {x \in keys : x[2] = n}} |-> labels[<<LabelPrefix, n, p>>]]]

\* backups[i].Name < backups[j].Name on the names of the model
NameLess(a, b) ==
    (CHOOSE i \in DOMAIN ConfigNameOrder : ConfigNameOrder[i] = a)
        < (CHOOSE i \in DOMAIN ConfigNameOrder : ConfigNameOrder[i] = b)

\* a variant of sortByName that leaves the sequence as it was appended
keepAppendOrder(backups) == backups

\* sort.Slice(backups, by Name): the names are distinct, so the result is the
\* one ascending arrangement
RECURSIVE sortByName(_)
sortByName(backups) ==
    IF backups = <<>> THEN <<>>
    ELSE LET least == CHOOSE i \in DOMAIN backups :
                         \A j \in DOMAIN backups : j /= i => NameLess(backups[i].Name, backups[j].Name)
         IN  <<backups[least]>> \o
             sortByName([j \in 1..(Len(backups) - 1) |->
                            IF j < least THEN backups[j] ELSE backups[j + 1]])

\* parseNamedConfigs with the second loop ranging over configGroups in the
\* given order: [err, backups]
parseNamedConfigsRange(labels, order) ==
    LET groups == configGroups(labels)
        parsed == [i \in DOMAIN order |-> parseConfigGroup(order[i], groups[order[i]])]
    IN  [err |-> \E i \in DOMAIN parsed : parsed[i].err,
         backups |-> sortByName([i \in DOMAIN parsed |-> parsed[i].backup])]

\* the orders in which "range configGroups" may visit the groups
RangeOrders(labels) ==
    LET names == DOMAIN configGroups(labels)
    IN  {q \in [1..Cardinality(names) -> names] : Range(q) = names}

\* the labels without the keys that use a reserved property as a config name
StripReserved(labels) ==
    [k \in {x \in DOMAIN labels : ~(Len(x) = 3 /\ x[2] \in reservedProperties)} |-> labels[k]]

InitParse ==
    /\ \E labels \in LabelMaps :
          rt = [c \in ContainerIDs |->
                  IF c = "c1" THEN [state |-> "running", labels |-> labels]
                  ELSE [state |-> "absent", labels |-> LabelsOff]]
    /\ evq = <<>>
    /\ containers = <<>>
    /\ scheduler = NewScheduler
    /\ store = EmptyStore
    /\ clock = 0
    /\ fs = InitFs
    /\ vop = IdleOp
    /\ dmn = DaemonServing
    /\ ntf = NoTasks
    /\ hnd = HandlersIdle
    /\ last = [op |-> "init"]

\* the start event of c1: addContainer parses the labels and schedules the
\* plan; order is the order in which the parser's map was ranged over
ParseStart(order) ==
    /\ last.op = "init"
    /\ SetManager(addContainer(Manager, "c1"))
    /\ last' = [op |-> "parse", order |-> order,
                result |-> Parsed("c1"),
                ranged |-> parseNamedConfigsRange(rt["c1"].labels, order),
                stripped |-> ParseLabels("c1", NameOf("c1"), StripReserved(rt["c1"].labels))]
    /\ UNCHANGED <<rt, evq, store, clock, volVars, dmn, ntf, hnd>>

NextParse == \E order \in RangeOrders(rt["c1"].labels) : ParseStart(order)

SpecParse == InitParse /\ [][NextParse]_vars

(***************************************************************************)
(* SpecRace: watchEvents and pollContainers as two goroutines that both    *)
(* call Manager.handleEvent; m.mu is held only where the code holds it     *)
(***************************************************************************)
Goroutines == {"ev", "poll"}

InitRace == InitCoord

\* where a goroutine goes on when scheduleContainer returns: handleEvent
\* returns to watchEvents, syncContainers goes on with its first loop
AfterSchedule(t) == IF t = "ev" THEN "idle" ELSE "loop"

\* ListContainers: id, name and labels of a running container, as listed
Snapshot(c) == [id |-> c, p |-> Parsed(c)]

\* watchEvents takes the next event. start: addContainer up to the call of
\* scheduleContainer (GetContainer, ParseLabels, no lock). stop, die:
\* removeContainer, all of it under m.mu
RaceEvent ==
    /\ hnd.ev.pc = "idle"
    /\ evq /= <<>>
    /\ LET e == Head(evq)
       IN  IF e.Action = "start"
           THEN /\ hnd' = [hnd EXCEPT !.ev =
                              IF FreshPlan(e.ID)
                              THEN [pc |-> "store", cid |-> e.ID,
                                    cfg |-> Parsed(e.ID).cfg, rest |-> <<>>]
                              ELSE IdleTask]
                /\ UNCHANGED <<containers, scheduler>>
           ELSE /\ SetManager(removeContainer(Manager, e.ID))
                /\ UNCHANGED hnd
    /\ evq' = Tail(evq)
    /\ last' = [op |-> "event"]
    /\ UNCHANGED <<rt, store, clock, volVars, dmn, ntf>>

\* scheduleContainer, the part under m.mu: the jobs of the stored plan are
\* removed and the new plan is stored; the lock is released
RaceStore(t) ==
    /\ hnd[t].pc = "store"
    /\ LET h == hnd[t]
       IN  /\ scheduler' = IF h.cid \in DOMAIN containers
                           THEN removeJobs(scheduler, h.cid, containers[h.cid].Backups)
                           ELSE scheduler
           /\ containers' = [x \in (DOMAIN containers) \cup {h.cid} |->
                                IF x = h.cid THEN h.cfg ELSE containers[x]]
           /\ hnd' = [hnd EXCEPT ![t] =
                         IF h.cfg.Backups = <<>>
                         THEN [IdleTask EXCEPT !.pc = AfterSchedule(t)]
                         ELSE [h EXCEPT !.pc = "add", !.rest = h.cfg.Backups]]
    /\ last' = [op |-> "store"]
    /\ UNCHANGED <<rt, evq, store, clock, volVars, dmn, ntf>>

\* scheduleContainer, one turn of the loop over cfg.Backups, without m.mu:
\* scheduleBackupConfig of the next config
RaceAdd(t) ==
    /\ hnd[t].pc = "add"
    /\ LET h == hnd[t]
           s1 == scheduleBackupConfig(scheduler, h.cid, h.cfg, Head(h.rest))
       IN  /\ s1.next <= MaxEntryID
           /\ scheduler' = s1
           /\ hnd' = [hnd EXCEPT ![t] =
                         IF Tail(h.rest) = <<>>
                         THEN [IdleTask EXCEPT !.pc = AfterSchedule(t)]
                         ELSE [h EXCEPT !.rest = Tail(h.rest)]]
    /\ last' = [op |-> "add"]
    /\ UNCHANGED <<rt, evq, containers, store, clock, volVars, dmn, ntf>>

\* pollContainers hands a sync event to handleEvent: syncContainers lists
\* the running containers
RaceSyncList(listed) ==
    /\ hnd.poll.pc = "idle"
    /\ hnd' = [hnd EXCEPT !.poll.pc = "loop",
                          !.listed = [i \in DOMAIN listed |-> Snapshot(listed[i])],
                          !.seen = {}]
    /\ last' = [op |-> "list"]
    /\ UNCHANGED <<rt, evq, containers, scheduler, store, clock, volVars, dmn, ntf>>

\* syncContainers, one turn of the first loop up to the call of
\* scheduleContainer: seen, ParseLabels, the read of m.containers under RLock
RaceSyncNext ==
    /\ hnd.poll.pc = "loop"
    /\ hnd.listed /= <<>>
    /\ LET c == Head(hnd.listed)
           skip == \/ c.p.err
                   \/ ~c.p.cfg.Enabled
                   \/ /\ c.id \in DOMAIN containers
                      /\ configsEqual(containers[c.id].Backups, c.p.cfg.Backups)
       IN  hnd' = [hnd EXCEPT !.listed = Tail(hnd.listed),
                              !.seen = hnd.seen \cup {c.id},
                              !.poll = IF skip THEN hnd.poll
                                       ELSE [pc |-> "store", cid |-> c.id,
                                             cfg |-> c.p.cfg, rest |-> <<>>]]
    /\ last' = [op |-> "next"]
    /\ UNCHANGED <<rt, evq, containers, scheduler, store, clock, volVars, dmn, ntf>>

\* syncContainers, the second loop, all of it under m.mu: the tracked
\* containers that were not listed lose their jobs and their plan
RaceSyncRemove ==
    /\ hnd.poll.pc = "loop"
    /\ hnd.listed = <<>>
    /\ SetManager(syncUnseen(Manager, (DOMAIN containers) \ hnd.seen))
    /\ hnd' = [hnd EXCEPT !.poll = IdleTask, !.seen = {}]
    /\ last' = [op |-> "remove"]
    /\ UNCHANGED <<rt, evq, store, clock, volVars, dmn, ntf>>

\* the labels the containers are created with under SpecRace
RaceLabels(id) == IF id = "c1" THEN {LabelsOff, LabelsDb5} ELSE {LabelsTwo}

NextRace ==
    \/ \E c \in ContainerIDs : \E labels \in RaceLabels(c) : DockerStart(c, labels)
    \/ \E c \in ContainerIDs : \E action \in {"stop", "die"} : DockerStop(c, action)
    \/ RaceEvent
    \/ \E t \in Goroutines : RaceStore(t)
    \/ \E t \in Goroutines : RaceAdd(t)
    \/ \E listed \in ListOrders(Running) : RaceSyncList(listed)
    \/ RaceSyncNext
    \/ RaceSyncRemove

SpecRace == InitRace /\ [][NextRace]_vars

(***************************************************************************)
(* Properties                                                              *)
(***************************************************************************)
\* this step reconciled container c: a start event for c, or a resync that saw c
ReconcileStep(c) ==
    \/ last'.op = "start" /\ last'.cid = c
    \/ last'.op = "sync" /\ c \in last'.seen

\* this step handled a stop or die event for c, or a resync that did not see c
GoneStep(c) ==
    \/ last'.op \in {"stop", "die"} /\ last'.cid = c
    \/ last'.op = "sync" /\ c \notin last'.seen

\* what the Scheduler holds under a set of job keys: entry id, schedule and job
SchedulerView(s, keys) ==
    [k \in keys \cap DOMAIN s.jobs |-> [id |-> s.jobs[k], entry |-> s.entries[s.jobs[k]]]]

\* C1: a reconciliation of a tracked container whose fresh plan equals the
\* stored plan leaves the Scheduler's entries of that container as they were
\* (none removed, re-added or replaced).
C1_EqualPlanIsNoOp ==
    [][\A c \in ContainerIDs :
          (ReconcileStep(c) /\ SamePlan(c))
          => /\ JobKeysOf(scheduler', c) = JobKeysOf(scheduler, c)
             /\ SchedulerView(scheduler', JobKeysOf(scheduler, c))
                = SchedulerView(scheduler, JobKeysOf(scheduler, c))]_vars

\* C2: AddJob with an invalid schedule returns an error and leaves the
\* Scheduler exactly as it was, whether or not the key was scheduled.
C2_InvalidScheduleKeepsState ==
    [][(last'.op = "AddJob" /\ ~ValidSchedule(last'.schedule))
          => (last'.err /\ scheduler' = scheduler)]_vars

\* C3: after a reconciliation of c in which its labels parse to enabled=false
\* or fail to parse, c has no plan entry and the Scheduler holds no job of c.
C3_DisabledIsAbsent ==
    [][\A c \in ContainerIDs :
          (ReconcileStep(c) /\ rt[c].state /= "absent"
             /\ (Parsed(c).err \/ ~Parsed(c).cfg.Enabled))
          => (c \notin DOMAIN containers' /\ JobKeysOf(scheduler', c) = {})]_vars

\* C4: after a stop or die event for c, or a resync that no longer sees c, the
\* plans map has no entry for c and every JobKey of c's previous plan is gone
\* from the Scheduler.
C4_GoneContainerRemoved ==
    [][\A c \in ContainerIDs :
          GoneStep(c)
          => /\ c \notin DOMAIN containers'
             /\ c \in DOMAIN containers
                  => PlanKeys(containers[c]) \cap DOMAIN scheduler'.jobs = {}
             /\ JobKeysOf(scheduler', c) = {}]_vars

C4_Witness ==
    /\ last.op \in {"stop", "die"}
    /\ last.tracked /\ last.hadJobs
    /\ last.cid \notin DOMAIN containers
    /\ \E c \in DOMAIN containers : JobKeysOf(scheduler, c) /= {}

\* a config of a plan can be scheduled: registered producer and resolvable pool
Resolvable(b) == b.BackupType \in RegisteredTypes /\ GetForContainer(b.Storage)

\* the cron entries whose job was made for (c, config name)
EntriesFor(s, c, name) ==
    {id \in DOMAIN s.entries :
        s.entries[id].job.containerID = c /\ s.entries[id].job.backup.Name = name}

\* the Scheduler holds exactly one entry for config b of container c, under its
\* JobKey and with b's schedule
OneEntry(s, c, b) ==
    /\ makeJobKey(c, b.Name) \in DOMAIN s.jobs
    /\ EntriesFor(s, c, b.Name) = {s.jobs[makeJobKey(c, b.Name)]}
    /\ s.entries[s.jobs[makeJobKey(c, b.Name)]].schedule = b.Schedule

\* C5 as claimed: after a reconciliation of a tracked c whose fresh plan differs
\* from the stored one, the fresh plan is stored, no JobKey of the old plan
\* that the new plan lacks remains, and every config of the new plan with a
\* registered producer and a resolvable pool has exactly one entry with its
\* schedule.
C5_ReplanAsClaimed ==
    [][\A c \in ContainerIDs :
          (ReconcileStep(c) /\ ChangedPlan(c))
          => /\ c \in DOMAIN containers' /\ containers'[c] = Parsed(c).cfg
             /\ (PlanKeys(containers[c]) \ PlanKeys(Parsed(c).cfg)) \cap DOMAIN scheduler'.jobs = {}
             /\ \A b \in Range(Parsed(c).cfg.Backups) :
                   Resolvable(b) => OneEntry(scheduler', c, b)]_vars

\* C5 amended: ... every config of the new plan with a registered producer, a
\* resolvable pool and a schedule the cron parser accepts has exactly one
\* entry with its schedule; a config whose schedule is rejected has none.
C5_Replan ==
    [][\A c \in ContainerIDs :
          (ReconcileStep(c) /\ ChangedPlan(c))
          => /\ c \in DOMAIN containers' /\ containers'[c] = Parsed(c).cfg
             /\ (PlanKeys(containers[c]) \ PlanKeys(Parsed(c).cfg)) \cap DOMAIN scheduler'.jobs = {}
             /\ \A b \in Range(Parsed(c).cfg.Backups) :
                   /\ (Resolvable(b) /\ ValidSchedule(b.Schedule)) => OneEntry(scheduler', c, b)
                   /\ ~ValidSchedule(b.Schedule) => EntriesFor(scheduler', c, b.Name) = {}]_vars

\* the label change of the scenario: db.schedule "0 3 * * *" became "*/5 * * * *"
C5_Witness ==
    /\ last.op = "sync" /\ "c1" \in last.changed /\ "c1" \in last.hadJobs
    /\ "c1" \in DOMAIN containers
    /\ containers["c1"] = ParseLabels("c1", NameOf("c1"), LabelsDb5).cfg
    /\ ListJobs(scheduler)["c1:db"] = "*/5 * * * *"

\* the runs of the operation that has just ended (none after another step)
LastRuns == IF "runs" \in DOMAIN last THEN Range(last.runs) ELSE {}

Listing(run) == List(store[run.pool], run.prefix)

FailedOutcomes == {"validate_failed", "storage_failed", "backup_failed", "store_failed"}

HasFailedEvent(run) == \E i \in DOMAIN run.events : run.events[i].Type = "backup_failed"

\* C7: after an explicit trigger (Manager.TriggerBackup or the RPC) in which
\* validation, the backup, the storage resolution or the store of a config
\* failed, the trigger has returned an error, the RPC response is a failure,
\* a backup_failed event was emitted for the run, and the config was run once.
C7_TriggerFailureSurfaced ==
    last.op \in {"trigger", "rpc"} =>
        \A run \in LastRuns :
            run.outcome \in FailedOutcomes =>
                /\ last.err
                /\ last.op = "rpc" => (last.response.status /= 200 /\ ~last.response.success)
                /\ HasFailedEvent(run)
                /\ Cardinality({i \in DOMAIN last.runs : last.runs[i].config = run.config}) = 1

\* C8: a run that finds its container not running is, when fired by the
\* Scheduler, skipped without an event and without a change of any sink, and
\* is, when requested by an explicit trigger, answered with an error.
C8_NotRunningStep ==
    \A i \in DOMAIN last'.runs :
        last'.runs[i].outcome = "not_running" =>
            /\ last'.op = "cron" => (last'.runs[i].events = <<>> /\ store' = store)
            /\ last'.op \in {"trigger", "rpc"} => last'.err
            /\ last'.op = "rpc" => ~last'.response.success

C8_NotRunning == [][("runs" \in DOMAIN last') => C8_NotRunningStep]_vars

\* the volumes the invocation in progress refers to, and their users
ReferencedVolumes == Range(volumeNames(ContainerMounts(vop.target)))

VolumeUsers == {c \in ContainerIDs : \E v \in ReferencedVolumes : c \in Range(GetContainersUsingVolume(v))}

\* an entry whose target path is not below (or at) the root of its volume
Escapes(header) ==
    LET paths == volumePaths(ContainerMounts(vop.target))
    IN  /\ header.Name /= <<>>
        /\ header.Name[1] \in DOMAIN paths
        /\ ~isSubPath(paths[header.Name[1]],
                      paths[header.Name[1]] \o (IF Len(header.Name) = 1 THEN <<".">> ELSE Tail(header.Name)))

\* C9: when a volume restore of an archive with an entry that escapes its
\* volume root has returned, it has returned an error and the filesystem is
\* as it was when the restore was called.
C9_RestoreContained ==
    (vop.pc = "done" /\ vop.kind = "restore" /\ \E i \in DOMAIN vop.archive : Escapes(vop.archive[i]))
        => (vop.err /\ fs = vop.fs0)

\* C10: when a volume backup or restore has returned, every user of a
\* referenced volume that was running before is running, and every such
\* container that was not running before is not running.
C10_RunningRestored ==
    vop.pc = "done" =>
        \A c \in VolumeUsers : (rt[c].state = "running") <=> (vop.before[c] = "running")

\* C11: while the tar walk of a volume backup is about to read the volumes
\* (the stop loop has ended and the context is live), no container that uses
\* a referenced volume is running.
C11_QuiescentWalk ==
    (vop.pc = "walk" /\ vop.kind = "backup" /\ ~vop.cancelled)
        => \A c \in VolumeUsers : rt[c].state /= "running"

Execs == {dmn.execs[id] : id \in DOMAIN dmn.execs}

\* C12: no two executions of runBackup in flight have the same job key.
C12_OneRunPerJobKey ==
    \A i, j \in DOMAIN dmn.execs : i /= j => dmn.execs[i].key /= dmn.execs[j].key

\* C13: once the ambient context of the daemon is cancelled, the context of
\* every execution in flight is cancelled.
C13_CancelReachesJobs ==
    dmn.ctxCancelled => \A e \in Execs : ExecCancelled(e)

\* C20: while a job is still running, neither server has been closed and the
\* daemon has not exited (no time of the grace period has passed in a step).
C20_NoCloseWhileJobRuns ==
    (dmn.api = "closed" \/ dmn.dash = "closed" \/ dmn.pc = "exited")
        => (Execs = {} /\ dmn.killed = {})

\* C14: the keys formed for the same container and config at two distinct
\* instants (at one-second resolution) are different.
C14_KeyInjective ==
    (last.op = "keys" /\ last.t1 /= last.t2) => last.k1 /= last.k2

\* the artifacts of a sink under a prefix, with their bytes
Artifacts(st, prefix) == [k \in List(st, prefix) |-> st[k].data]

\* some run of the operation just ended enforced retention on the pool over a
\* prefix of the key and deleted at least one entry
RemovedByRetention(runs, pool, key) ==
    \E i \in DOMAIN runs :
        /\ runs[i].outcome = "completed" /\ runs[i].deleted > 0
        /\ runs[i].pool = pool /\ matchesPrefix(key, runs[i].prefix)

C15_ArtifactImmutableStep ==
    \A p \in Pools : \A k \in DOMAIN store[p] :
        IF k \in DOMAIN store'[p]
        THEN store'[p][k].data = store[p][k].data
        ELSE "runs" \in DOMAIN last' /\ RemovedByRetention(last'.runs, p, k)

\* C15: an artifact stored under key k keeps its bytes for as long as k
\* exists, and k leaves its sink only through retention enforcement (the model
\* has no explicit delete): no later backup run overwrites or removes it.
C15_ArtifactImmutable == [][C15_ArtifactImmutableStep]_vars

FailedRun(run) == run.outcome \in FailedOutcomes \cup {"inspect_failed"}

C16_FailedRunLeavesSinkStep ==
    \A i \in DOMAIN last'.runs :
        LET run == last'.runs[i]
        IN  (FailedRun(run) /\ run.pool \in Pools) =>
                /\ (run.key /= "" /\ run.key \notin DOMAIN store[run.pool])
                       => run.key \notin DOMAIN store'[run.pool]
                /\ Artifacts(store'[run.pool], run.prefix) = Artifacts(store[run.pool], run.prefix)

\* C16: a backup run that fails at any step leaves nothing of its own under
\* the key it formed, and the artifacts listed under its prefix
\* "{container}/{config}/" are the same after the run as before it.
C16_FailedRunLeavesSink == [][("runs" \in DOMAIN last') => C16_FailedRunLeavesSinkStep]_vars

\* the sink Enforce worked on, before and after, and what it removed
EnforcedBefore == last.before[last.pool]

EnforcedAfter == store[last.pool]

EnforceRemoved == DOMAIN EnforcedBefore \ DOMAIN EnforcedAfter

\* what is left of every sink is as it was before
EnforceKeepsRest ==
    /\ DOMAIN EnforcedAfter \subseteq DOMAIN EnforcedBefore
    /\ \A k \in DOMAIN EnforcedAfter : EnforcedAfter[k] = EnforcedBefore[k]
    /\ \A p \in Pools \ {last.pool} : store[p] = last.before[p]

\* C17: when Enforce has entries to delete and some of the deletes fail, it
\* still deletes every other entry past the first keep, and it returns the
\* number of deletes that succeeded together with an error.
C17_DeleteFailureReported ==
    (last.op = "enforce" /\ last.listOk /\ last.attempted \cap last.delFail /= {}) =>
        /\ EnforceRemoved = last.attempted \ last.delFail
        /\ EnforceKeepsRest
        /\ last.deleted = Cardinality(last.attempted \ last.delFail)
        /\ last.err

\* C18: after Enforce has completed without a failing delete, the sink holds
\* what it held before minus the entries under the prefix past the first
\* keep by last-modified time, newest first: max(0, n - keep) entries of the
\* prefix are removed, none of them newer than an entry of the prefix that
\* survives, the count returned is the number removed, there is no error, and
\* no key outside the prefix and no other sink has changed.
C18_EnforceExact ==
    (last.op = "enforce" /\ last.listOk /\ last.attempted \cap last.delFail = {}) =>
        LET under == List(EnforcedBefore, last.prefix)
            n == Cardinality(under)
        IN  /\ EnforceKeepsRest
            /\ EnforceRemoved \subseteq under
            /\ Cardinality(EnforceRemoved) = IF n > last.keep THEN n - last.keep ELSE 0
            /\ \A d \in EnforceRemoved : \A s \in under \ EnforceRemoved :
                   EnforcedBefore[s].mtime >= EnforcedBefore[d].mtime
            /\ last.deleted = Cardinality(EnforceRemoved)
            /\ ~last.err

\* keep = MaxKeep with MaxKeep + 1 artifacts under the prefix, next to keys of
\* another config and of another container: exactly one entry was deleted
C18_Witness ==
    /\ last.op = "enforce" /\ last.listOk /\ last.delFail = {}
    /\ last.prefix = "web/db/" /\ last.keep = MaxKeep
    /\ Cardinality(List(EnforcedBefore, "web/db/")) = MaxKeep + 1
    /\ List(EnforcedBefore, "web/db2/") /= {} /\ List(EnforcedBefore, "db1/db/") /= {}
    /\ last.deleted = 1
    /\ Cardinality(List(EnforcedAfter, "web/db/")) = MaxKeep

\* the subscription of the watcher has ended with an error
StreamDown == dmn.stream \in {"failed", "closed"}

\* C19: whenever the event stream has reported an error while the daemon is
\* not shutting down, the watcher eventually subscribes to the event stream
\* again (or the daemon is shut down first).
C19_WatcherResubscribes ==
    (StreamDown /\ ~dmn.ctxCancelled) ~> (dmn.stream = "open" \/ dmn.ctxCancelled)

\* the restore request just answered called BackupType.Restore
ReachedProducer ==
    last.op = "restore" /\ last.called /\ last.result.stage \in {"restore", "restored"}

\* the events of the restore after the call of BackupType.Restore
RestoreEnding == SubSeq(last.result.events, last.result.before + 1, Len(last.result.events))

\* the notifier set chosen for the restore just answered
RestoreProviders == getNotifyProviders(containers[TriggerTarget(last.container)], last.result.config[1])

\* after BackupType.Restore exactly one event is emitted, restore_completed on
\* success and restore_failed on failure, on the chosen notifier set
RestoreEndsWithOneEvent ==
    /\ Len(RestoreEnding) = 1
    /\ RestoreEnding[1].Type = IF last.result.err THEN "restore_failed" ELSE "restore_completed"
    /\ RestoreEnding[1].providers = RestoreProviders

\* C21: a restore that reaches the producer has emitted restore_started on
\* the chosen notifier set before BackupType.Restore is called, and emits
\* exactly one of restore_completed or restore_failed on that set afterwards.
C21_RestoreEvents ==
    ReachedProducer =>
        /\ last.result.before = 1
        /\ last.result.events[1].Type = "restore_started"
        /\ last.result.events[1].providers = RestoreProviders
        /\ RestoreEndsWithOneEvent

\* the restore request just answered failed at producer validation, at the
\* sink's Get or in BackupType.Restore
RestoreFailedLate ==
    last.op = "restore" /\ last.called /\ last.result.stage \in {"validate", "get", "restore"}

RestoreErrorReturned ==
    /\ last.result.err
    /\ last.response.status = 500 /\ ~last.response.success /\ last.response.error /= ""

\* C22: a restore that fails at producer validation, at the sink's Get or in
\* BackupType.Restore returns its error to the RPC caller and has emitted one
\* restore_failed event on the chosen notifier set.
C22_RestoreFailureSurfaced ==
    RestoreFailedLate =>
        /\ RestoreErrorReturned
        /\ Len(last.result.events) >= 1
        /\ LET e == last.result.events[Len(last.result.events)]
           IN  e.Type = "restore_failed" /\ e.providers = RestoreProviders
        /\ Cardinality({i \in DOMAIN last.result.events :
                           last.result.events[i].Type = "restore_failed"}) = 1

\* the restore request just answered chose a BackupConfig
RestoreChose == last.op = "restore" /\ last.called /\ last.result.config /= <<>>

\* the plan of the container the request names
RestorePlan == containers[TriggerTarget(last.container)]

\* the configs of the plan named by the second segment of the key
NamedBySegment == {b \in Range(RestorePlan.Backups) : b.Name = Split(last.key)[2]}

RpcAnswered == last.op \in {"restore", "delete", "list"}

\* the request named a container that neither is tracked nor runs
UnknownContainer == last.container /= "" /\ TriggerTarget(last.container) = ""

\* the request named a key that no sink held
AbsentKey ==
    /\ last.op \in {"restore", "delete"} /\ last.key /= ""
    /\ IF last.op = "delete" THEN ~last.held
       ELSE \A p \in Pools : last.key \notin DOMAIN store[p]

\* C28: a request without a required argument is answered with 400, one that
\* names an unknown container or an absent artifact key with 404, any other
\* failure with 500, and every error response carries a non-empty error.
C28_RpcStatus ==
    RpcAnswered =>
        /\ ~last.called => last.response.status = 400
        /\ (last.called /\ (UnknownContainer \/ AbsentKey)) => last.response.status = 404
        /\ (last.called /\ ~UnknownContainer /\ ~AbsentKey /\ last.result.err)
               => last.response.status = 500
        /\ last.response.status /= 200 => (~last.response.success /\ last.response.error /= "")

\* this step ran scheduleContainer for c with its fresh plan: a start event,
\* or a resync that saw c untracked or with a changed plan
ScheduleStep(c) ==
    /\ ReconcileStep(c) /\ FreshPlan(c)
    /\ last'.op = "sync" => ~SamePlan(c)

\* a plan with a config that cannot be scheduled for want of a producer or pool
HasUnresolved(cfg) == \E b \in Range(cfg.Backups) : ~Resolvable(b)

\* C23 as claimed: when a plan with an unresolved config is scheduled, the
\* unresolved config gets no Scheduler entry and each other config of the
\* plan has its JobKey in the Scheduler afterwards.
C23_UnresolvedSkippedAsClaimed ==
    [][\A c \in ContainerIDs :
          (ScheduleStep(c) /\ HasUnresolved(Parsed(c).cfg))
          => \A b \in Range(Parsed(c).cfg.Backups) :
                IF Resolvable(b) THEN makeJobKey(c, b.Name) \in DOMAIN scheduler'.jobs
                ELSE /\ makeJobKey(c, b.Name) \notin DOMAIN scheduler'.jobs
                     /\ EntriesFor(scheduler', c, b.Name) = {}]_vars

\* C23: when a plan with an unresolved config is scheduled, the unresolved
\* config gets no Scheduler entry and each other config of the plan whose
\* schedule the cron parser accepts has exactly one entry under its JobKey
\* afterwards.
C23_UnresolvedSkipped ==
    [][\A c \in ContainerIDs :
          (ScheduleStep(c) /\ HasUnresolved(Parsed(c).cfg))
          => \A b \in Range(Parsed(c).cfg.Backups) :
                /\ (Resolvable(b) /\ ValidSchedule(b.Schedule)) => OneEntry(scheduler', c, b)
                /\ ~Resolvable(b) =>
                      /\ makeJobKey(c, b.Name) \notin DOMAIN scheduler'.jobs
                      /\ EntriesFor(scheduler', c, b.Name) = {}]_vars

\* a plan with an unregistered producer (a), an unknown pool (files) and a
\* schedulable config (db) has just been scheduled: only db has a job
C23_Witness ==
    /\ last.op \in {"start", "sync"}
    /\ "c1" \in DOMAIN containers /\ rt["c1"].labels = LabelsUnresolved
    /\ containers["c1"] = Parsed("c1").cfg
    /\ {"a", "db", "files"} \subseteq {b.Name : b \in Range(containers["c1"].Backups)}
    /\ JobKeysOf(scheduler, "c1") = {"c1:db"}
    /\ IF last.op = "start" THEN last.cid = "c1" ELSE "c1" \in last.seen /\ "c1" \notin last.same

\* the live entries of the cron instance that a job key points at
LiveFor(s, key) == {id \in DOMAIN s.entries : key \in DOMAIN s.jobs /\ s.jobs[key] = id}

\* every job key has one live entry and every live entry one job key
KeysAndEntriesPaired ==
    /\ \A k \in DOMAIN scheduler.jobs : Cardinality(LiveFor(scheduler, k)) = 1
    /\ \A id \in DOMAIN scheduler.entries :
          Cardinality({k \in DOMAIN scheduler.jobs : scheduler.jobs[k] = id}) = 1

\* a step that is AddJob on a key that was scheduled
ReAdded == last'.op = "AddJob" /\ last'.had

\* the entry of the key is new, alone, and carries the schedule and the job
\* of the call, and the number of jobs is what it was
Replaced ==
    /\ scheduler.jobs[last'.key] \notin DOMAIN scheduler'.entries
    /\ last'.key \in DOMAIN scheduler'.jobs
    /\ scheduler'.entries[scheduler'.jobs[last'.key]] =
          [schedule |-> last'.schedule, job |-> last'.job]
    /\ JobCount(scheduler') = JobCount(scheduler)

\* C24: the keys and the live entries are paired one to one in every
\* state, and every AddJob on a scheduled key leaves that key with the one entry of the new schedule and job and the
\* job count unchanged
C24_ReplaceKeepsCount ==
    []KeysAndEntriesPaired /\ [][ReAdded => Replaced]_vars

\* the operation that has emitted can take its next step in every state
CallerFree ==
    /\ ntf.pc = "retention" => ENABLED NOpRetention
    /\ ntf.pc = "return" => ENABLED NOpReturn

\* a send in flight has not passed the deadline of its task's context (or the
\* moment it began, when the task began after the deadline), and it can
\* return whatever the other sends do
SendsBounded ==
    \A p \in Sending(ntf) :
        LET task == ntf.tasks[p[1]]
            send == task.sends[p[2]]
        IN  /\ ntf.now <= Later(task.deadline, send.started)
            /\ ntf.now - send.started <= NotifyTimeout
            /\ ENABLED (NSendReturns(p[1], p[2], "ok") \/ NSendTimeout(p[1], p[2]))

\* a step in which the operation emits its event
EmitStep == last'.op = "OpEmit" /\ Len(ntf.providers) > 0

\* the step adds one task that has not sent anything yet, takes no time and
\* leaves the operation at its next step, joined on nothing
EmitOnlySpawns ==
    /\ ntf'.now = ntf.now
    /\ ntf'.pc = IF last'.event = "backup_completed" THEN "retention" ELSE "return"
    /\ ntf'.waits = 0
    /\ Len(ntf'.tasks) = Len(ntf.tasks) + 1
    /\ ntf'.tasks[Len(ntf'.tasks)].pc = "spawned"
    /\ ntf'.tasks[Len(ntf'.tasks)].deadline = ntf.now + 30

\* C25: emitting an event does not block runBackup or RestoreBackup: the emit
\* step only spawns the notification task, the operation can go on to
\* retention and to its return in every state whatever the sends do, and
\* every send is a task of its own that the 30-second deadline ends
C25_EmitNeverBlocks ==
    [](CallerFree /\ SendsBounded) /\ [][EmitStep => EmitOnlySpawns]_vars

\* runBackup has returned after backup_completed and retention while a
\* notifier has not answered up to the moment its send is cut off
C25_Witness ==
    /\ last.op = "OpReturn" /\ last.name = "runBackup"
    /\ \E p \in Sending(ntf) :
          /\ ntf.tasks[p[1]].event = "backup_completed"
          /\ ntf.now >= SendLimit(ntf.tasks[p[1]], ntf.tasks[p[1]].sends[p[2]])
          /\ ntf.now > ntf.tasks[p[1]].sends[p[2]].started

\* the names of a list that are registered notifiers
RegisteredIn(providers) == {name \in Registered : \E j \in DOMAIN providers : providers[j] = name}

\* a task that runs or has run Notify called Send once for every registered
\* name of its list and for nothing else
SentOnce ==
    \A i \in DOMAIN ntf.tasks :
        ntf.tasks[i].pc /= "spawned" =>
            /\ DOMAIN ntf.tasks[i].sends = RegisteredIn(ntf.tasks[i].providers)
            /\ \A name \in DOMAIN ntf.tasks[i].sends : ntf.tasks[i].sends[name].calls = 1

\* a send that has returned, with or without an error, is not made again
NoRetry ==
    \A i \in DOMAIN ntf.tasks :
        ntf.tasks[i].pc /= "spawned" =>
            \A name \in DOMAIN ntf.tasks[i].sends :
                ntf.tasks[i].sends[name].state /= "sending"
                => ntf'.tasks[i].sends[name] = ntf.tasks[i].sends[name]

\* a send in flight can return whether the other sends of the task have
\* failed, timed out or not returned
OthersGoOn ==
    \A p \in Sending(ntf) : ENABLED NSendReturns(p[1], p[2], "ok")
                            \/ ENABLED NSendTimeout(p[1], p[2])

\* C26: Notify calls Send exactly once for every name of the list that is a
\* registered notifier, never again after the send returned (failed or not),
\* for no name that is not registered, and neither an unregistered name nor a
\* failed send keeps the other names from their send
C26_EachRegisteredOnce ==
    [](SentOnce /\ OthersGoOn) /\ [][NoRetry]_vars

\* Notify has returned for the list ghost, slack, mail: the send to slack
\* failed and the send to mail succeeded
C26_Witness ==
    \E i \in DOMAIN ntf.tasks :
        /\ ntf.tasks[i].pc = "done"
        /\ ntf.tasks[i].providers = <<"ghost", "slack", "mail">>
        /\ ntf.tasks[i].sends["slack"].state = "failed"
        /\ ntf.tasks[i].sends["mail"].state = "ok"

\* the tasks a step added
AddedTasks == SubSeq(ntf'.tasks, Len(ntf.tasks) + 1, Len(ntf'.tasks))

\* the names of a list
Names(providers) == {providers[j] : j \in DOMAIN providers}

\* the emit step dispatches to the config's own list when it has one, else to
\* the container's list, and spawns nothing when both are empty
EmitChoosesList ==
    /\ ntf.own /= <<>> => (Len(AddedTasks) = 1 /\ AddedTasks[1].providers = ntf.own)
    /\ (ntf.own = <<>> /\ ntf.container /= <<>>)
          => (Len(AddedTasks) = 1 /\ AddedTasks[1].providers = ntf.container)
    /\ (ntf.own = <<>> /\ ntf.container = <<>>) => AddedTasks = <<>>

\* tasks come from the emit step only, no task has an empty list, and no send
\* goes to a name outside the task's list
OnlyListedNotified ==
    \A i \in DOMAIN ntf.tasks :
        /\ ntf.tasks[i].providers /= <<>>
        /\ ntf.tasks[i].pc /= "spawned" =>
              DOMAIN ntf.tasks[i].sends \subseteq Names(ntf.tasks[i].providers)

\* C27: an event emitted for a BackupConfig is dispatched to the config's own
\* notifier list when that list is non-empty, without the container's names
\* added; otherwise to the container's list; and when that list is empty too
\* nothing is dispatched and nothing is sent
C27_NotifierSelection ==
    /\ []OnlyListedNotified
    /\ [][(last'.op = "OpEmit" => EmitChoosesList)
          /\ (last'.op /= "OpEmit" => AddedTasks = <<>>)]_vars

\* the config lists mail, the container lists ghost, slack and mail: Notify
\* has returned with the one send to mail and none to slack
C27_Witness ==
    /\ ntf.own = <<"mail", "mail">> /\ ntf.container = <<"ghost", "slack", "mail">>
    /\ Len(ntf.tasks) = 1
    /\ ntf.tasks[1].pc = "done"
    /\ DOMAIN ntf.tasks[1].sends = {"mail"}

\* a run request for a container whose plan is tracked was answered
RunAnswered == last.op = "rpc" /\ last.container \in DOMAIN containers

\* the config names of the runs of the request, in the order they ran
RanConfigs == [i \in DOMAIN last.runs |-> last.runs[i].config]

\* the answer is success with status 200, or success=false with an error
RunResponseShape ==
    last.op = "rpc" =>
        /\ last.response.success = (last.response.status = 200)
        /\ last.response.success = (~last.err /\ last.response.status /= 400)

\* C29: POST /backup/run/{container_name} without a config name runs every
\* BackupConfig of the plan exactly once; with a config name supplied only
\* the config of that name is run, once, and no sibling; the answer is
\* {success, message} or {success=false, error}
C29_RunScope ==
    /\ RunResponseShape
    /\ (RunAnswered /\ ~last.err) =>
          IF last.config = ""
          THEN RanConfigs = [i \in DOMAIN containers[last.container].Backups |->
                               containers[last.container].Backups[i].Name]
          ELSE RanConfigs = <<last.config>>

\* the directories strictly below the base path on the way to a key
KeyAncestors(key) ==
    {SubSeq(Join(BasePath, key), 1, n) : n \in (Len(BasePath) + 1)..(Len(Join(BasePath, key)) - 1)}

\* a step that is a Delete of the local sink
DeleteStep == last'.op = "Delete"

\* after the step no ancestor directory of the key below the base is empty
NoEmptyAncestor ==
    \A d \in KeyAncestors(last'.key) :
        (d \in DOMAIN fs' /\ fs'[d].type = "dir") => Children(fs', d) /= {}

\* the base path is still there, and so is, unchanged, every entry other than
\* the key itself and the ancestors the removal of the key left empty
OthersPreserved ==
    /\ BasePath \in DOMAIN fs'
    /\ \A p \in DOMAIN fs :
          (p \in DOMAIN fs' /\ fs'[p] = fs[p])
          \/ p = Join(BasePath, last'.key)
          \/ (p \in KeyAncestors(last'.key) /\ Children(fs', p) = {})

\* C31: after any delete on the local sink no ancestor directory of the key
\* strictly below the base path is left empty, and the base path and every
\* ancestor that still holds another entry are preserved
C31_DeletePrunesParents ==
    [][DeleteStep => (NoEmptyAncestor /\ OthersPreserved)]_vars

\* a Delete of a key of the artifact key format was answered
DeletedKey == last.op = "Delete" /\ last.key \in LocalKeys

\* the sink after the Delete: the key is absent and every other key is there
\* with the content it had
OnlyKeyGone ==
    /\ last.key \notin DOMAIN last.after
    /\ DOMAIN last.after = DOMAIN last.before \ {last.key}
    /\ \A k \in DOMAIN last.after : last.after[k] = last.before[k]

ReservedAsName ==
    \E k \in DOMAIN rt["c1"].labels :
        HasLabelPrefix(k) /\ Len(k) = 3 /\ k[2] \in reservedProperties

\* the labels were parsed and the plan, if any, was scheduled
ParsedOnce == last.op = "parse"

\* the job keys the Scheduler holds for the configs of a plan that can be
\* scheduled
SchedulableKeys(c, cfg) ==
    {makeJobKey(c, b.Name) : b \in {x \in Range(cfg.Backups) :
                                       Resolvable(x) /\ ValidSchedule(x.Schedule)}}

\* C33: labels that use a reserved property name as a config name are
\* ignored: the parser answers as it does for the labels without them, no
\* BackupConfig of the plan has a reserved name, and every other named config
\* is parsed and, when it can be scheduled, scheduled
C33_ReservedNamesIgnored ==
    (ParsedOnce /\ ReservedAsName) =>
        /\ last.result = last.stripped
        /\ \A b \in Range(last.result.cfg.Backups) : b.Name \notin reservedProperties
        /\ (~last.result.err /\ last.result.cfg.Enabled) =>
              /\ containers["c1"] = last.result.cfg
              /\ {b.Name : b \in Range(last.result.cfg.Backups)}
                    = DOMAIN configGroups(rt["c1"].labels)
              /\ DOMAIN scheduler.jobs = SchedulableKeys("c1", last.result.cfg)

\* enable.type and notify.type are given beside the valid configs a and db:
\* the plan holds a and db and both are scheduled
C33_Witness ==
    /\ ParsedOnce /\ ~last.result.err
    /\ <<LabelPrefix, "enable", "type">> \in DOMAIN rt["c1"].labels
    /\ <<LabelPrefix, "enable", "schedule">> \in DOMAIN rt["c1"].labels
    /\ <<LabelPrefix, "notify", "type">> \in DOMAIN rt["c1"].labels
    /\ DOMAIN scheduler.jobs = {"c1:a", "c1:db"}

\* the plan of the last parse
ParsedPlan == last.result.cfg

\* type and schedule are there, retention is at least 1 and is 7 when the
\* config has no retention label
ConfigWellFormed(b) ==
    /\ b.BackupType /= "" /\ b.Schedule /= ""
    /\ b.Retention >= 1
    /\ <<LabelPrefix, b.Name, "retention">> \notin DOMAIN rt["c1"].labels => b.Retention = 7

\* the names of a sequence of configs ascend strictly
StrictlyAscending(backups) ==
    \A i, j \in DOMAIN backups : i < j => NameLess(backups[i].Name, backups[j].Name)

\* C34: ParseLabels returns an error or a plan that is well formed: an enabled
\* plan has at least one BackupConfig, every BackupConfig has a type, a
\* schedule and a retention of at least 1 (7 without a retention label), the
\* names are distinct and strictly ascending, and the sequence is the same
\* whatever the order in which the parser ranged over its map
C34_PlanWellFormed ==
    (ParsedOnce /\ ~last.result.err) =>
        /\ ParsedPlan.Enabled => Len(ParsedPlan.Backups) >= 1
        /\ \A b \in Range(ParsedPlan.Backups) : ConfigWellFormed(b)
        /\ Cardinality({b.Name : b \in Range(ParsedPlan.Backups)}) = Len(ParsedPlan.Backups)
        /\ ParsedPlan.Enabled =>
              /\ ~last.ranged.err
              /\ StrictlyAscending(last.ranged.backups)
              /\ last.ranged.backups = ParsedPlan.Backups

\* db and a were ranged over in the order db, a, db without a retention
\* label: the plan is a, db and db keeps 7
C34_Witness ==
    /\ ParsedOnce /\ ~last.result.err /\ ParsedPlan.Enabled
    /\ last.order = <<"db", "a">>
    /\ Len(ParsedPlan.Backups) = 2
    /\ ParsedPlan.Backups[1].Name = "a"
    /\ ParsedPlan.Backups[2].Retention = 7

\* both goroutines are outside of handleEvent
NoReconciliation == hnd.ev.pc = "idle" /\ hnd.poll.pc = "idle"

JobsOfPlans == UNION {SchedulableKeys(c, containers[c]) : c \in DOMAIN containers}

\* C35: whenever no reconciliation step is in progress, the job keys of the
\* Scheduler are the job keys of the schedulable configs of the stored plans;
\* no job stays scheduled for a container without a plan
C35_JobsMatchPlans == NoReconciliation => (DOMAIN scheduler.jobs = JobsOfPlans)

\* the plans map is what the runtime's running containers and labels ask for
PlansConverged(plans) ==
    /\ DOMAIN plans = {c \in Running : FreshPlan(c)}
    /\ \A c \in DOMAIN plans : FreshPlan(c) => PlanEqual(plans[c], Parsed(c).cfg)

\* a resync tick whose listing succeeded has completed
SyncCompleted == last'.op = "sync"

\* C36: a completed resync tick leaves in the plans map exactly the running
\* containers whose labels parse to an enabled plan, each with a plan equal to
\* the one parsed from its current labels, whatever the events before the
\* tick did (the runtime does not change during the tick)
C36_ResyncConverges == [][SyncCompleted => PlansConverged(containers')]_vars

\* the runs of the last cron job or trigger that found their container running
RunsOnRunning ==
    IF last.op \in {"cron", "trigger", "rpc"}
    THEN {last.runs[i] : i \in DOMAIN last.runs} \ {r \in {last.runs[i] : i \in DOMAIN last.runs} :
                                                       r.outcome = "not_running"}
    ELSE {}

\* one terminal event, backup_completed exactly when Backup and Store both
\* succeeded, backup_failed with the error otherwise
OneTerminalEvent(run) ==
    /\ Len(run.events) = 1
    /\ run.events[1].Type \in {"backup_completed", "backup_failed"}
    /\ run.events[1].Type = "backup_completed" <=> run.outcome = "completed"
    /\ run.events[1].Type = "backup_failed" => run.events[1].Error /= ""

\* backup_completed carries the size of the artifact
CompletedCarriesSize(run) ==
    run.outcome = "completed" => run.events[1].Size = run.written

\* a retention failure leaves the run completed, without backup_failed
RetentionFailureIsQuiet(run) ==
    run.retentionFailed => (run.outcome = "completed" /\ ~HasFailedEvent(run))

\* C37: a run of runBackup on a running container emits exactly one terminal
\* event: backup_completed with the artifact's size if and only if Backup and
\* Store both succeeded, backup_failed with the error otherwise; a retention
\* failure after the put neither emits backup_failed nor fails the run
C37_OneTerminalEvent ==
    \A run \in RunsOnRunning :
        OneTerminalEvent(run) /\ CompletedCarriesSize(run) /\ RetentionFailureIsQuiet(run)

\* no send has been ended by a cancellation
NoSendCancelled ==
    \A i \in DOMAIN ntf.tasks : \A name \in DOMAIN ntf.tasks[i].sends :
        ntf.tasks[i].sends[name].state /= "cancelled"

\* under a cancelled ctx a task that was dispatched still starts its sends,
\* and a send in flight can still be answered up to its own cut-off
CancelledCtxSendsGoOn ==
    ntf.ctx = "cancelled" =>
        /\ \A i \in DOMAIN ntf.tasks : ntf.tasks[i].pc = "spawned" => ENABLED NTaskStart(i)
        /\ \A p \in Sending(ntf) :
              ntf.now <= SendLimit(ntf.tasks[p[1]], ntf.tasks[p[1]].sends[p[2]])
              => ENABLED NSendReturns(p[1], p[2], "ok")

\* the cancellation itself leaves every task and every send as it is
CancelStep == last'.op = "Cancel"

\* an operation whose ctx is cancelled emits: the task gets the event, the
\* selected names and a deadline of its own, 30 seconds from the emit
EmitUnderCancel == last'.op = "OpEmit" /\ ntf.ctx = "cancelled" /\ Len(ntf.providers) > 0

EmitDispatches ==
    /\ Len(AddedTasks) = 1
    /\ AddedTasks[1].event = last'.event
    /\ AddedTasks[1].providers = ntf.providers
    /\ AddedTasks[1].deadline = ntf.now + NotifyTimeout

\* C38: cancelling the ctx of a job does not cancel a notification send the
\* job has dispatched or dispatches afterwards: the event of a cancelled run
\* is handed to the selected notifiers, and only the deadline of the task's
\* own context (or the client's timeout) ends a send
C38_CancelKeepsSends ==
    /\ [](NoSendCancelled /\ CancelledCtxSendsGoOn)
    /\ [][CancelStep => ntf'.tasks = ntf.tasks]_vars
    /\ [][EmitUnderCancel => EmitDispatches]_vars

\* the ctx of runBackup was cancelled, and after that a notifier has answered
\* the send of the run's backup_failed event
C38_Witness ==
    /\ last.op = "SendReturns" /\ last.state = "ok"
    /\ ntf.ctx = "cancelled"
    /\ ntf.op = "runBackup"
    /\ ntf.tasks[last.task].event = "backup_failed"

\* the map volumePaths of the restore in progress
RestorePaths == volumePaths(ContainerMounts(vop.target))

\* a round of the loop of Restore that applies the next header of the archive
EntryStep ==
    /\ vop.pc = "walk" /\ vop.kind = "restore" /\ vop.rest /= <<>>
    /\ last'.op = "entry"
    /\ vop'.rest = Tail(vop.rest)

\* the header names a volume of the container
KnownVolume(h) == h.Name /= <<>> /\ h.Name[1] \in DOMAIN RestorePaths

\* the headers of the archive that have been applied so far
AppliedHeaders == SubSeq(vop.archive, 1, Len(vop.archive) - Len(vop.rest))

\* no header applied before the next one names its volume
FirstEntryOf(volumeName) ==
    \A i \in DOMAIN AppliedHeaders :
        AppliedHeaders[i].Name = <<>> \/ AppliedHeaders[i].Name[1] /= volumeName

\* the paths strictly below the root of a volume
Inside(fsv, volumeName) ==
    {q \in DOMAIN fsv : isSubPath(VolumePath(volumeName), q) /\ q /= VolumePath(volumeName)}

\* the first entry of a volume: what the volume held is gone, and what it
\* holds afterwards is what this entry created (its target and the
\* directories above it)
ClearedAtFirstEntry ==
    LET h == Head(vop.rest)
    IN  (KnownVolume(h) /\ FirstEntryOf(h.Name[1])) =>
            \A q \in Inside(fs', h.Name[1]) :
                isSubPath(q, Join(VolumePath(h.Name[1]),
                                  IF Len(h.Name) = 1 THEN <<".">> ELSE Tail(h.Name)))

\* a later entry of a volume removes nothing
NoLaterClear ==
    LET h == Head(vop.rest)
    IN  (KnownVolume(h) /\ ~FirstEntryOf(h.Name[1])) => DOMAIN fs \subseteq DOMAIN fs'

\* an entry leaves everything outside of its own volume as it is, and an
\* entry of no volume of the container changes nothing
OtherVolumesKept ==
    LET h == Head(vop.rest)
        own == IF KnownVolume(h) THEN Inside(fs, h.Name[1]) \cup Inside(fs', h.Name[1]) ELSE {}
    IN  /\ (DOMAIN fs) \ own = (DOMAIN fs') \ own
        /\ \A q \in (DOMAIN fs) \ own : fs'[q] = fs[q]

\* C39: a volume restore clears each volume at the first tar entry that
\* names it, before that entry is written, and at no other moment: a later
\* entry of the volume removes nothing, no entry touches another volume, and
\* only the rounds of the loop change the file system
C39_ClearOncePerVolume ==
    /\ [][EntryStep => (ClearedAtFirstEntry /\ NoLaterClear /\ OtherVolumesKept)]_vars
    /\ [][(vop.pc \in {"stop", "walk", "defer"} /\ vop.kind = "restore" /\ fs' /= fs)
            => EntryStep]_vars

\* a restore of c1 from an archive with two entries of v1 and none of v2 has
\* returned: the old file of v1 is gone, both entries are in v1, and v2 holds
\* what it held
C39_Witness ==
    /\ vop.pc = "done" /\ vop.kind = "restore" /\ vop.target = "c1" /\ ~vop.err
    /\ vop.archive = ArchiveNested
    /\ Inside(fs, "v1") = {<<"vols", "v1", "d">>, <<"vols", "v1", "d", "f">>}
    /\ fs[<<"vols", "v1", "d", "f">>] = File("new")
    /\ <<"vols", "v1", "f">> \in DOMAIN vop.fs0
    /\ Inside(fs, "v2") = {<<"vols", "v2", "g">>} /\ fs[<<"vols", "v2", "g">>] = File("old")

\* the last request was a delete that removed an artifact a sink held
DeletedArtifact ==
    /\ last.op = "delete" /\ last.called
    /\ last.result.stage = "deleted" /\ last.held

\* the last request was a restore that read an artifact and handed it to
\* BackupType.Restore
AppliedArtifact ==
    /\ last.op = "restore" /\ last.called
    /\ last.result.stage \in {"restore", "restored"}

\* the first path segment of the key of the last request
KeyOwner == Split(last.key)[1]

====
